---- MODULE Spec2Model ----
(***************************************************************************)
(* The distributed scan pipeline of spiderfoot_ai, followed for one        *)
(* scan_id: the control-plane store row and result rows, the per-scan      *)
(* result queue scan.results.{scan_id}, the result-consumer supervisor     *)
(* (monitor thread and ConsumerThreads) and the worker that executes the   *)
(* scan task.                                                              *)
(***************************************************************************)
EXTENDS Integers, Sequences, FiniteSets, TLC

\* ------------------------------------------------------------- bounds
\* ConsumerThread objects that can exist at once (thread slots).
MaxThreads == 2
\* Distinct event hashes.
MaxHash == 1
\* Result messages published to exchange scan.results for the scan.
MaxPublish == 2
\* Environment faults: store errors, dropped broker connections.
MaxFaults == 1
\* Deliveries of the scan task to a worker (first delivery and redeliveries).
MaxDeliveries == 2
\* Events the engine emits in one execution.
MaxEmit == 1

\* ------------------------------------------------- program constants
STALE_CONSUMER_TIMEOUT == 600

\* Granularity of the model's clock: two ticks make the watchdog timeout.
TickSecs == STALE_CONSUMER_TIMEOUT \div 2

Slots == 1..MaxThreads
Hashes == 1..MaxHash
NoThread == 0

Lifecycles == {"FINISHED", "FAILED", "ABORTED"}
Terminal == {"FINISHED", "ERROR-FAILED", "ABORTED"}

\* Result messages (spec section 6): exactly one of event / lifecycle set.
EventMsg(h) == [kind |-> "event", hash |-> h, lifecycle |-> ""]
LifecycleMsg(l) == [kind |-> "lifecycle", hash |-> 0, lifecycle |-> l]
NoMsg == [kind |-> "none", hash |-> 0, lifecycle |-> ""]
Messages == {EventMsg(h) : h \in Hashes} \cup {LifecycleMsg(l) : l \in Lifecycles}

VARIABLES
    status,         \* tbl_scan_instance.status of the scan ("NONE": no row)
    rows,           \* tbl_scan_results: number of rows per hash of the scan
    queue,          \* ready messages of scan.results.{scan_id}
    queueExists,    \* the queue is declared and bound
    consumers,      \* ResultConsumerManager.consumers[scan_id] (a slot or NoThread)
    thr,            \* the ConsumerThread objects, by slot
    mon_pc,         \* position of _monitor_scans in its iteration
    running_scans,  \* the monitor's snapshot: scan_id in running_scans
    termAtRead,     \* the status was terminal when the iteration read the store
    stop_pc,        \* position of the stop_scan request handler
    pub,            \* publishers' history: messages so far, FINISHED or
                    \* another lifecycle among them
    nfault,         \* faults injected so far
    wk,             \* the worker's handling of the scan task (a record)
    ls,             \* launch_scan's call for the scan (a record)
    cm,             \* classification and publication of one task (a record)
    wd,             \* the watchdog's clock and one tracked consumer (a record)
    ing,            \* a ConsumerThread's ingestion of one event message (a record)
    reg,            \* the worker registry for one worker_id: row, heartbeat handlers, sweep (a record)
    hm,             \* a ConsumerThread's handling of one delivered message, and delete_scan (a record)
    sf,             \* the task-local store file of one scan_id on the worker's data path (a record)
    mgr,            \* the ResultConsumerManager's start-up, its monitor thread and the broker's reachability (a record)
    pb              \* the worker's result sink and log forwarder and their broker connections (a record)

vars == <<status, rows, queue, queueExists, consumers, thr, mon_pc,
          running_scans, termAtRead, stop_pc, pub, nfault, wk, ls, cm, wd, ing, reg, hm, sf, mgr, pb>>

\* The components outside the scan's supervisor, worker and dispatcher.
extVars == <<cm, wd, ing, reg, hm, sf, mgr, pb>>

\* The scan's own state, and what each of the other components leaves
\* alone.
scanVars == <<status, rows, queue, queueExists, consumers, thr, mon_pc,
              running_scans, termAtRead, stop_pc, pub, nfault, wk, ls>>
cmFrame == <<scanVars, wd, ing, reg, hm, sf, mgr, pb>>
wdFrame == <<scanVars, cm, ing, reg, hm, sf, mgr, pb>>
ingFrame == <<scanVars, cm, wd, reg, hm, sf, mgr, pb>>
regFrame == <<scanVars, cm, wd, ing, hm, sf, mgr, pb>>
hmFrame == <<scanVars, cm, wd, ing, reg, sf, mgr, pb>>
sfFrame == <<scanVars, cm, wd, ing, reg, hm, mgr, pb>>
mgrFrame == <<scanVars, cm, wd, ing, reg, hm, sf, pb>>
pbFrame == <<scanVars, cm, wd, ing, reg, hm, sf, mgr>>

storeVars == <<status, rows>>
brokerVars == <<queue, queueExists>>
monVars == <<mon_pc, running_scans, termAtRead>>
supVars == <<consumers, thr, mon_pc, running_scans, termAtRead>>

Min(a, b) == IF a < b THEN a ELSE b

\* ------------------------------------------------------ ConsumerThread
Unborn ==
    [pc |-> "unborn", stop_event |-> FALSE, lifecycle_received |-> FALSE,
     idle_secs |-> 0, msg |-> NoMsg, already_stored |-> FALSE,
     is_open |-> FALSE, consuming |-> FALSE, orphaned |-> FALSE,
     corr |-> "none"]

\* ConsumerThread.__init__ followed by start().
NewConsumerThread == [Unborn EXCEPT !.pc = "starting"]

is_alive(t) == thr[t].pc \notin {"unborn", "dead"}

\* ConsumerThread.stop(): set the stop event; cancel the subscription when
\* the channel is open.
StopThread(th) ==
    [th EXCEPT !.stop_event = TRUE,
               !.consuming = IF th.is_open THEN FALSE ELSE th.consuming]

\* A thread object nobody references any more frees its slot once dead.
Retire(th, tracked) ==
    IF th.pc = "dead" /\ ~tracked THEN Unborn ELSE th

\* Only a tracked consumer's idle time is ever read (watchdog).
Untrack(th) == Retire([th EXCEPT !.idle_secs = 0], FALSE)

FreeSlots == {t \in Slots : thr[t].pc = "unborn"}

\* ------------------------------------------------------------ store
\* SpiderFootDb.scanInstanceSet: UPDATE ... WHERE guid = ? (no row: no-op).
scanInstanceSet(st, new) == IF st = "NONE" THEN st ELSE new

\* A query that leaves ABORT-REQUESTED scans out.
ActiveStatuses_RunningOnly == {"RUNNING"}

\* _get_running_scans: status IN ('RUNNING', 'ABORT-REQUESTED').
ActiveStatuses == {"RUNNING", "ABORT-REQUESTED"}

\* A handler that records a failed scan as FINISHED.
LifecycleStatus_FailedAsFinished(l) ==
    CASE l = "FINISHED" -> "FINISHED"
      [] l = "FAILED" -> "FINISHED"
      [] l = "ABORTED" -> "ABORTED"
      [] OTHER -> "NONE"

\* Lifecycle message -> status written by ConsumerThread._handle_message.
LifecycleStatus(l) ==
    CASE l = "FINISHED" -> "FINISHED"
      [] l = "FAILED" -> "ERROR-FAILED"
      [] l = "ABORTED" -> "ABORTED"
      [] OTHER -> "NONE"

\* ------------------------------------------------------------ broker
\* A broker hand-back that discards the delivery (requeue=False).
Requeue_Discard(q, m) == q

\* basic_nack(requeue=True) or a closed connection returns the delivery.
Requeue(q, m) == IF m = NoMsg THEN q ELSE <<m>> \o q

\* ------------------------------------------------------------ Init
\* The worker before the task's first delivery; b is the kind of body the
\* task message carries.
NewWorker(b) ==
    [pc |-> "idle", body |-> b, ndeliv |-> 0, local |-> "NONE", bridge |-> "off",
     sink_channel |-> FALSE, emitted |-> 0, normal |-> FALSE, raised |-> FALSE,
     final |-> "NONE", pub_failed |-> FALSE, published |-> <<>>, pub_run |-> 0,
     succeeded |-> FALSE, ack_raised |-> FALSE, settlements |-> <<>>]

\* ---------------------------------------------------------- launch_scan
\* The storage modules a module list can name (the other modules of the
\* list play no part here).
StorageModules == {"sfp__stor_db", "sfp__stor_rabbitmq", "sfp__stor_stdout"}

\* "Add mandatory storage module": the broker sink instead of the direct
\* store when RABBITMQ_URL is set and the broker is reachable, else the
\* direct store; then drop sfp__stor_stdout.
SelectStorage(ml, broker) ==
    (IF broker THEN (ml \cup {"sfp__stor_rabbitmq"}) \ {"sfp__stor_db"}
               ELSE ml \cup {"sfp__stor_db"}) \ {"sfp__stor_stdout"}

\* launch_scan entered with the modules the user selected; url: whether
\* RABBITMQ_URL is set.
NewLaunch(url, ml) ==
    [pc |-> "modules", url |-> url, modlist |-> ml, row_creates |-> 0,
     create_failed |-> FALSE, predeclared |-> "none", task_published |-> FALSE,
     scanner |-> "none", scanner_modlist |-> {}, ret |-> "", row_failed |-> FALSE]

\* launch_scan after a successful broker dispatch (the result of the
\* pre-declaration is not kept: line 168 drops it).
Dispatched ==
    [NewLaunch(TRUE, {"sfp__stor_rabbitmq"}) EXCEPT
        !.pc = "returned", !.row_creates = 1,
        !.predeclared = "called",
        !.task_published = TRUE, !.ret = "SUCCESS"]

\* No task is being classified.
NoTask == [pc |-> "idle", module_list |-> <<>>, queue_type |-> "", queue |-> ""]

\* No consumer is under the watchdog's eye.
NoWatch == [pc |-> "idle", now |-> 0, last_message_time |-> 0, deliveries |-> 0,
            idle_secs |-> 0, fired |-> FALSE]

\* No event message is being ingested.
NoIngest == [pc |-> "idle", confidence |-> 100, visibility |-> 100, risk |-> 0,
             deliveries |-> 0, rows |-> 0, rejected_by |-> "none", acked |-> FALSE]

\* The registry before any heartbeat: no row, the monitor not yet swept.
NoRegistry == [now |-> 0, lapses |-> 0, row |-> [exists |-> FALSE, status |-> "", current_scan |-> "", last_seen |-> 0],
               hb |-> <<>>, sweep_pc |-> "idle", last_cleanup_time |-> 0, offline_since |-> 0]

\* No message is in the result queue of the handler's scan.
NoHandle == [pc |-> "idle", body |-> "empty", calls |-> <<>>, exc |-> "none", requeued |-> FALSE, redelivered |-> FALSE,
             faults |-> 0, scan_row |-> TRUE, scan_status |-> "RUNNING", results |-> 0, deleted |-> FALSE]

\* No task for the scan_id has been delivered: no task-local store file.
NoStoreFile == [pc |-> "idle", file |-> "absent", at_start |-> "absent", bridge |-> "off", abort |-> FALSE,
                deliveries |-> 0, unlink_faults |-> 0]

\* The manager has been constructed and start() has not been called.
NoManager == [pc |-> "created", broker_up |-> TRUE, flips |-> 0, connected |-> FALSE, monitor |-> "none",
              polls |-> 0, scan |-> "none", consumer |-> FALSE]

\* No engine is running: neither the sink nor the log forwarder exists.
NoPublisher == [engine |-> "none", broker_up |-> TRUE, flips |-> 0, sink |-> "none", fw |-> "none",
                events |-> 0, logs |-> 0, sink_connects |-> 0, fw_connects |-> 0,
                sink_failures |-> 0, fw_failures |-> 0, last |-> "none"]

\* The components outside the scan's supervisor, worker and dispatcher are
\* at rest.
ExtIdle ==
    /\ cm = NoTask
    /\ wd = NoWatch
    /\ ing = NoIngest
    /\ reg = NoRegistry
    /\ hm = NoHandle
    /\ sf = NoStoreFile
    /\ mgr = NoManager
    /\ pb = NoPublisher

\* launch_scan has created the scan row and set it RUNNING; the manager
\* has started its monitor thread.
InitCommon ==
    /\ ExtIdle
    /\ status = "RUNNING"
    /\ rows = [h \in Hashes |-> 0]
    /\ queue = <<>>
    /\ consumers = NoThread
    /\ thr = [t \in Slots |-> Unborn]
    /\ mon_pc = "sleep"
    /\ running_scans = FALSE
    /\ termAtRead = FALSE
    /\ stop_pc = "idle"
    /\ pub = [n |-> 0, finished |-> FALSE, other |-> FALSE]

\* launch_scan ignores the result of pre_declare_result_queue: the result
\* queue exists or not when the task is published.
Init ==
    /\ InitCommon
    /\ queueExists \in BOOLEAN
    /\ nfault = 0
    /\ wk = NewWorker("task")
    /\ ls = Dispatched

\* ---------------------------------------------------- fault injection
CanFault == nfault < MaxFaults

\* ------------------------------------------------- ConsumerThread.run
\* run() up to the consume loop: connect, queue_declare, queue_bind,
\* basic_consume.  A failed connect raises into the finally block.
ConsumerConnect(t) ==
    /\ thr[t].pc = "starting"
    /\ \/ /\ thr' = [thr EXCEPT ![t] = [@ EXCEPT !.pc = "loop", !.is_open = TRUE,
                                                  !.consuming = TRUE]]
          /\ queueExists' = TRUE
          /\ nfault' = nfault
       \/ /\ CanFault
          /\ thr' = [thr EXCEPT ![t] = Retire([@ EXCEPT !.pc = "dead"], consumers = t)]
          /\ nfault' = nfault + 1
          /\ UNCHANGED queueExists
    /\ UNCHANGED <<storeVars, queue, consumers, monVars, stop_pc, pub>>
    /\ UNCHANGED <<wk, ls, extVars>>

\* A finally block that deletes the queue whenever the channel is open.
DeletesQueue_ChannelOnly(th) == th.is_open

\* The finally block deletes the queue only after a lifecycle message and
\* with the channel still open.
DeletesQueue(th) == th.lifecycle_received /\ th.is_open

\* The consume loop ends (stop event set, no consumer left on the channel,
\* or process_data_events raised); the finally block runs; the thread dies.
ConsumerExit(t) ==
    /\ thr[t].pc = "loop"
    /\ thr[t].stop_event \/ ~thr[t].consuming \/ ~thr[t].is_open
    /\ LET del == DeletesQueue(thr[t]) IN
       /\ thr' = [u \in Slots |->
                    IF u = t
                    THEN Retire([Unborn EXCEPT !.pc = "dead",
                                    !.lifecycle_received = thr[t].lifecycle_received,
                                    !.stop_event = thr[t].stop_event,
                                    !.idle_secs = thr[t].idle_secs],
                                consumers = t)
                    ELSE IF del /\ thr[u].pc \notin {"unborn", "dead", "starting"}
                         THEN [thr[u] EXCEPT !.consuming = FALSE, !.orphaned = TRUE]
                         ELSE thr[u]]
       /\ queue' = IF del THEN <<>> ELSE queue
       /\ queueExists' = IF del THEN FALSE ELSE queueExists
    /\ UNCHANGED <<storeVars, consumers, monVars, stop_pc, pub, nfault>>
    /\ UNCHANGED <<wk, ls, extVars>>

\* _handle_message, first part: record the delivery time, decode, and
\* either mark the lifecycle as received or run the duplicate SELECT.
Deliver(t) ==
    /\ thr[t].pc = "loop"
    /\ ~thr[t].stop_event /\ thr[t].consuming /\ thr[t].is_open
    /\ queueExists /\ queue # <<>>
    /\ LET m == Head(queue) IN
       /\ queue' = Tail(queue)
       /\ thr' = [thr EXCEPT ![t] =
                    IF m.kind = "lifecycle"
                    THEN [@ EXCEPT !.pc = "lifecycle", !.msg = m, !.idle_secs = 0,
                                   !.lifecycle_received = TRUE]
                    ELSE [@ EXCEPT !.pc = "event", !.msg = m, !.idle_secs = 0,
                                   !.already_stored = rows[m.hash] > 0]]
    /\ UNCHANGED <<storeVars, queueExists, consumers, monVars, stop_pc, pub, nfault>>
    /\ UNCHANGED <<wk, ls, extVars>>

\* After the handler returns (or its ack/nack raised on a closed channel)
\* the thread is back in the consume loop.
BackToLoop(th) == [th EXCEPT !.pc = "loop", !.msg = NoMsg, !.already_stored = FALSE]

\* The duplicate check's verdict decides whether scanEventStore runs.
InsertsRow(th) == ~th.already_stored

\* _handle_message, event branch after the SELECT: insert unless the hash
\* was found, then basic_ack.  A store error is nacked with requeue=True.
HandleEvent(t) ==
    /\ thr[t].pc = "event"
    /\ LET th == thr[t]
           h == th.msg.hash IN
       \/ /\ rows' = IF InsertsRow(th) THEN [rows EXCEPT ![h] = @ + 1] ELSE rows
          /\ thr' = [thr EXCEPT ![t] = BackToLoop(th)]
          /\ UNCHANGED <<queue, nfault>>
       \/ /\ CanFault /\ InsertsRow(th)
          /\ nfault' = nfault + 1
          /\ queue' = IF th.is_open /\ ~th.orphaned /\ queueExists
                      THEN Requeue(queue, th.msg) ELSE queue
          /\ thr' = [thr EXCEPT ![t] = BackToLoop(th)]
          /\ UNCHANGED rows
    /\ UNCHANGED <<status, queueExists, consumers, monVars, stop_pc, pub>>
    /\ UNCHANGED <<wk, ls, extVars>>

\* How the correlation subprocess of _run_correlations can end: exit code
\* 0, exit code -9 / 137, TimeoutExpired after 900 s, another exit code,
\* or subprocess.run failing to launch it.
CorrOutcomes == {"clean", "oom", "timeout", "nonzero", "launch_failed"}

\* What _run_correlations leaves in the log for an outcome: the info line
\* of a clean exit or one of its error lines.
CorrLogged(o) == IF o = "clean" THEN "completed" ELSE "error"

\* A _run_correlations that lets TimeoutExpired escape.
RunCorrelations_TimeoutEscapes(o) == IF o = "timeout" THEN "raised" ELSE "returned"

\* _run_correlations: every outcome is logged inside the function.
RunCorrelations(o) ==
    CASE o = "clean" -> "returned"
      [] o = "oom" -> "returned"
      [] o = "timeout" -> "returned"
      [] o = "nonzero" -> "returned"
      [] o = "launch_failed" -> "returned"
      [] OTHER -> "returned"

\* _handle_message, lifecycle branch after lifecycle_received is set: for
\* FINISHED run the correlations, then write the status, stop(),
\* basic_ack.  An exception (store error) is nacked with requeue=True.
HandleLifecycle(t) ==
    /\ thr[t].pc = "lifecycle"
    /\ LET th == thr[t] IN
       \/ \E o \in IF th.msg.lifecycle = "FINISHED" THEN CorrOutcomes ELSE {"none"} :
             IF RunCorrelations(o) = "returned"
             THEN /\ status' = scanInstanceSet(status, LifecycleStatus(th.msg.lifecycle))
                  /\ thr' = [thr EXCEPT ![t] =
                               [StopThread(BackToLoop(th)) EXCEPT !.corr = CorrLogged(o)]]
                  /\ UNCHANGED <<queue, nfault>>
             ELSE /\ queue' = IF th.is_open /\ ~th.orphaned /\ queueExists
                              THEN Requeue(queue, th.msg) ELSE queue
                  /\ thr' = [thr EXCEPT ![t] = [BackToLoop(th) EXCEPT !.corr = CorrLogged(o)]]
                  /\ UNCHANGED <<status, nfault>>
       \/ /\ CanFault
          /\ nfault' = nfault + 1
          /\ queue' = IF th.is_open /\ ~th.orphaned /\ queueExists
                      THEN Requeue(queue, th.msg) ELSE queue
          /\ thr' = [thr EXCEPT ![t] = BackToLoop(th)]
          /\ UNCHANGED status
    /\ UNCHANGED <<rows, queueExists, consumers, monVars, stop_pc, pub>>
    /\ UNCHANGED <<wk, ls, extVars>>

\* The consumer's broker connection drops: the broker returns its unacked
\* delivery to the queue; the thread notices at its next broker call.
ConnectionLost(t) ==
    /\ thr[t].pc \in {"loop", "event", "lifecycle"}
    /\ thr[t].is_open
    /\ CanFault
    /\ nfault' = nfault + 1
    /\ queue' = IF ~thr[t].orphaned /\ queueExists
                THEN Requeue(queue, thr[t].msg) ELSE queue
    /\ thr' = [thr EXCEPT ![t] = [@ EXCEPT !.is_open = FALSE, !.consuming = FALSE]]
    /\ UNCHANGED <<storeVars, queueExists, consumers, monVars, stop_pc, pub>>
    /\ UNCHANGED <<wk, ls, extVars>>

\* ------------------------------------------------------- publishers
\* Something publishes a result message with routing key scan_id; a
\* message that finds no bound queue is dropped by the exchange.
Publish(m) ==
    /\ pub.n < MaxPublish
    /\ pub' = [n |-> pub.n + 1,
               finished |-> pub.finished \/ m = LifecycleMsg("FINISHED"),
               other |-> pub.other \/ m \in {LifecycleMsg("ABORTED"),
                                             LifecycleMsg("FAILED")}]
    /\ queue' = IF queueExists THEN Append(queue, m) ELSE queue
    /\ UNCHANGED <<storeVars, queueExists, consumers, thr, monVars, stop_pc, nfault>>
    /\ UNCHANGED <<wk, ls, extVars>>

\* ----------------------------------------------------------- stop_scan
\* POST /scans/{id}/stop: read the status, refuse unless RUNNING/STARTING.
StopScanCheck ==
    /\ stop_pc = "idle"
    /\ status \in {"RUNNING", "STARTING"}
    /\ stop_pc' = "write"
    /\ UNCHANGED <<storeVars, brokerVars, consumers, thr, monVars, pub, nfault>>
    /\ UNCHANGED <<wk, ls, extVars>>

\* run_scan_task is in progress on the worker.
Executing == wk.pc \in {"setup", "engine", "finally"}

\* ... then write ABORT-REQUESTED (stop_pc also records whether a worker
\* was executing the scan at that moment).
StopScanWrite ==
    /\ stop_pc = "write"
    /\ stop_pc' = IF Executing THEN "done_executing" ELSE "done"
    /\ status' = scanInstanceSet(status, "ABORT-REQUESTED")
    /\ UNCHANGED <<rows, brokerVars, consumers, thr, monVars, pub, nfault>>
    /\ UNCHANGED <<wk, ls, extVars>>

\* ------------------------------------------------------ _monitor_scans
\* Wall-clock time passes for the tracked consumer's idle time.
Tick ==
    /\ consumers # NoThread
    /\ thr[consumers].idle_secs < STALE_CONSUMER_TIMEOUT
    /\ thr' = [thr EXCEPT ![consumers].idle_secs =
                  Min(@ + TickSecs, STALE_CONSUMER_TIMEOUT)]
    /\ UNCHANGED <<storeVars, brokerVars, consumers, monVars, stop_pc, pub, nfault>>
    /\ UNCHANGED <<wk, ls, extVars>>

\* _get_running_scans: TRUE iff the scan is in the result; a store error
\* yields the empty list.
MonitorRead ==
    /\ mon_pc = "sleep"
    /\ mon_pc' = "step1"
    /\ termAtRead' = (status \in Terminal)
    /\ \/ /\ running_scans' = (status \in ActiveStatuses)
          /\ UNCHANGED nfault
       \/ /\ CanFault
          /\ nfault' = nfault + 1
          /\ running_scans' = FALSE
    /\ UNCHANGED <<storeVars, brokerVars, consumers, thr, stop_pc, pub>>
    /\ UNCHANGED <<wk, ls, extVars>>

\* Step 1: reap a tracked consumer whose thread is no longer alive.
MonitorReap ==
    /\ mon_pc = "step1"
    /\ mon_pc' = "step2"
    /\ IF consumers # NoThread /\ ~is_alive(consumers)
       THEN /\ consumers' = NoThread
            /\ thr' = [thr EXCEPT ![consumers] = Untrack(@)]
       ELSE UNCHANGED <<consumers, thr>>
    /\ UNCHANGED <<storeVars, brokerVars, running_scans, termAtRead, stop_pc, pub, nfault>>
    /\ UNCHANGED <<wk, ls, extVars>>

\* A step 2 that starts nothing.
NeedsConsumer_Never(rs, c) == FALSE

\* Step 2's test: scan_id in running_scans and not in self.consumers.
NeedsConsumer(rs, c) == rs /\ c = NoThread

\* Step 2: start a consumer for an active scan that has none.
MonitorStart ==
    /\ mon_pc = "step2"
    /\ mon_pc' = "step3"
    /\ IF NeedsConsumer(running_scans, consumers)
       THEN /\ FreeSlots # {}
            /\ LET t == CHOOSE u \in FreeSlots : \A v \in FreeSlots : u <= v IN
               /\ consumers' = t
               /\ thr' = [thr EXCEPT ![t] = NewConsumerThread]
       ELSE UNCHANGED <<consumers, thr>>
    /\ UNCHANGED <<storeVars, brokerVars, running_scans, termAtRead, stop_pc, pub, nfault>>
    /\ UNCHANGED <<wk, ls, extVars>>

\* Step 3 that stops the consumer but leaves it in the map.
Step3Consumers_Keep(c, rs) == c

\* Step 3 on the consumer map: a tracked scan that is not in
\* running_scans is popped.
Step3Consumers(c, rs) == IF c # NoThread /\ ~rs THEN NoThread ELSE c

\* Step 3: stop the consumer of a scan that is not in running_scans.
MonitorStop ==
    /\ mon_pc = "step3"
    /\ mon_pc' = "step4"
    /\ consumers' = Step3Consumers(consumers, running_scans)
    /\ IF consumers # NoThread /\ ~running_scans
       THEN thr' = [thr EXCEPT ![consumers] =
                       IF consumers' = NoThread THEN Untrack(StopThread(@))
                       ELSE StopThread(@)]
       ELSE UNCHANGED thr
    /\ UNCHANGED <<storeVars, brokerVars, running_scans, termAtRead, stop_pc, pub, nfault>>
    /\ UNCHANGED <<wk, ls, extVars>>

\* A watchdog that never finds a consumer stale.
IsStale_Never(th) == FALSE

\* A watchdog that waits for more than STALE_CONSUMER_TIMEOUT.
IsStale_Strict(th) == th.idle_secs > STALE_CONSUMER_TIMEOUT

\* Step 4, the watchdog's test: idle_secs >= STALE_CONSUMER_TIMEOUT.
IsStale(th) == th.idle_secs >= STALE_CONSUMER_TIMEOUT

MonitorWatchdog ==
    /\ mon_pc = "step4"
    /\ mon_pc' = IF consumers # NoThread /\ IsStale(thr[consumers])
                 THEN "stale" ELSE "sleep"
    /\ UNCHANGED <<storeVars, brokerVars, consumers, thr, running_scans, termAtRead,
                   stop_pc, pub, nfault>>
    /\ UNCHANGED <<wk, ls, extVars>>

\* Step 4 on a stale consumer: stop() it and pop it from the map.
MonitorStale ==
    /\ mon_pc = "stale"
    /\ mon_pc' = "mark"
    /\ consumers' = NoThread
    /\ thr' = [thr EXCEPT ![consumers] = Untrack(StopThread(@))]
    /\ UNCHANGED <<storeVars, brokerVars, running_scans, termAtRead, stop_pc, pub, nfault>>
    /\ UNCHANGED <<wk, ls, extVars>>

\* The status the watchdog writes after the correlation subprocess.
WatchdogStatus(st) == scanInstanceSet(st, "FINISHED")

\* Step 4, end: run correlations, then mark the scan FINISHED (a store
\* error is logged and swallowed).
MonitorMark ==
    /\ mon_pc = "mark"
    /\ mon_pc' = "sleep"
    /\ \/ /\ status' = WatchdogStatus(status)
          /\ UNCHANGED nfault
       \/ /\ CanFault
          /\ nfault' = nfault + 1
          /\ UNCHANGED status
    /\ UNCHANGED <<rows, brokerVars, consumers, thr, running_scans, termAtRead,
                   stop_pc, pub>>
    /\ UNCHANGED <<wk, ls, extVars>>

\* ------------------------------------------------------------- Next
Next ==
    \/ \E t \in Slots : ConsumerConnect(t)
    \/ \E t \in Slots : Deliver(t)
    \/ \E t \in Slots : HandleEvent(t)
    \/ \E t \in Slots : HandleLifecycle(t)
    \/ \E t \in Slots : ConsumerExit(t)
    \/ \E t \in Slots : ConnectionLost(t)
    \/ \E m \in Messages : Publish(m)
    \/ StopScanCheck
    \/ StopScanWrite
    \/ Tick
    \/ MonitorRead
    \/ MonitorReap
    \/ MonitorStart
    \/ MonitorStop
    \/ MonitorWatchdog
    \/ MonitorStale
    \/ MonitorMark

Spec == Init /\ [][Next]_vars

\* Scheduling: every started thread keeps running, the monitor loop keeps
\* iterating (shutdown_event.wait(timeout=10)) and time passes.
FairSupervisor ==
    /\ \A t \in Slots :
          /\ WF_vars(ConsumerConnect(t))
          /\ WF_vars(Deliver(t))
          /\ WF_vars(HandleEvent(t))
          /\ WF_vars(HandleLifecycle(t))
          /\ WF_vars(ConsumerExit(t))
    /\ WF_vars(Tick)
    /\ WF_vars(MonitorRead)
    /\ WF_vars(MonitorReap)
    /\ WF_vars(MonitorStart)
    /\ WF_vars(MonitorStop)
    /\ WF_vars(MonitorWatchdog)
    /\ WF_vars(MonitorStale)
    /\ WF_vars(MonitorMark)

SpecFair == Init /\ [][Next]_vars /\ FairSupervisor

\* =================================================================
\* The worker: _on_message, run_scan_task, the abort bridge, the sink
\* =================================================================
BodyKinds == {"task", "badjson", "nonobject"}

\* sfp__stor_rabbitmq's module-level imports: pika is not among them (it is
\* imported only inside _ssl_options and _connect), so the name pika is
\* unbound in handleEvent and finished.
PikaBound == FALSE

\* handleEvent / finished publish when the sink has a channel and building
\* pika.BasicProperties does not raise.
SinkPublishes(w) == w.sink_channel /\ PikaBound

\* basic_publish to exchange scan.results with routing key scan_id.
Route(q, m) == IF queueExists THEN Append(q, m) ELSE q

\* The broker delivers the task (again, after a dropped worker connection).
TaskDeliver ==
    /\ \/ wk.pc \in {"idle", "crashed", "killed"}
       \/ wk.pc = "done" /\ wk.ack_raised
    /\ wk.ndeliv < MaxDeliveries
    /\ wk' = [NewWorker(wk.body) EXCEPT !.pc = "received", !.ndeliv = wk.ndeliv + 1,
                                         !.local = wk.local]
    /\ UNCHANGED <<storeVars, brokerVars, supVars, stop_pc, pub, nfault, ls, extVars>>

\* _on_message up to current_scan_ref[0] = scan_id: json.loads, then
\* task.get on the decoded value.
OnMessageParse ==
    /\ wk.pc = "received"
    /\ wk' = CASE wk.body = "badjson" ->
                    [wk EXCEPT !.pc = "done", !.settlements = Append(@, "nack_false")]
               [] wk.body = "nonobject" -> [wk EXCEPT !.pc = "crashed"]
               [] OTHER -> [wk EXCEPT !.pc = "setup"]
    /\ UNCHANGED <<storeVars, brokerVars, supVars, stop_pc, pub, nfault, ls, extVars>>

\* run_scan_task before its try block: remove a stale task-local store,
\* load the configuration (which may raise), start the abort bridge.
RunSetup ==
    /\ wk.pc = "setup"
    /\ \/ wk' = [wk EXCEPT !.pc = "engine", !.local = "NONE", !.bridge = "polling"]
       \/ wk' = [wk EXCEPT !.pc = "settle", !.local = "NONE", !.raised = TRUE]
    /\ UNCHANGED <<storeVars, brokerVars, supVars, stop_pc, pub, nfault, ls, extVars>>

\* The engine creates the task-local scan row and sets up the sink, whose
\* _connect succeeds or not.
EngineStart ==
    /\ wk.pc = "engine" /\ wk.local = "NONE"
    /\ \E ch \in BOOLEAN : wk' = [wk EXCEPT !.local = "RUNNING", !.sink_channel = ch]
    /\ UNCHANGED <<storeVars, brokerVars, supVars, stop_pc, pub, nfault, ls, extVars>>

\* The engine emits an event; the sink's handleEvent is called with it.
EngineEmit(h) ==
    /\ wk.pc = "engine" /\ wk.local \in {"RUNNING", "ABORT-REQUESTED"}
    /\ wk.emitted < MaxEmit
    /\ wk' = [wk EXCEPT !.emitted = @ + 1]
    /\ queue' = IF SinkPublishes(wk) THEN Route(queue, EventMsg(h)) ELSE queue
    /\ UNCHANGED <<storeVars, queueExists, supVars, stop_pc, pub, nfault, ls, extVars>>

\* Normal completion: the engine records FINISHED and calls finished().
EngineFinish ==
    /\ wk.pc = "engine" /\ wk.local \in {"RUNNING", "ABORT-REQUESTED"}
    /\ wk' = [wk EXCEPT !.pc = "finally", !.local = "FINISHED", !.normal = TRUE,
                        !.published = IF SinkPublishes(wk) THEN Append(@, "FINISHED")
                                      ELSE @]
    /\ queue' = IF SinkPublishes(wk) THEN Route(queue, LifecycleMsg("FINISHED"))
                ELSE queue
    /\ UNCHANGED <<storeVars, queueExists, supVars, stop_pc, pub, nfault, ls, extVars>>

\* The engine honours the abort flag in the task-local store.
EngineAbort ==
    /\ wk.pc = "engine" /\ wk.local = "ABORT-REQUESTED"
    /\ wk' = [wk EXCEPT !.pc = "finally", !.local = "ABORTED"]
    /\ UNCHANGED <<storeVars, brokerVars, supVars, stop_pc, pub, nfault, ls, extVars>>

\* The engine records ERROR-FAILED, and returns or raises.
EngineFail ==
    /\ wk.pc = "engine" /\ wk.local \in {"RUNNING", "ABORT-REQUESTED"}
    /\ \E r \in BOOLEAN :
          wk' = [wk EXCEPT !.pc = "finally", !.local = "ERROR-FAILED", !.raised = r]
    /\ UNCHANGED <<storeVars, brokerVars, supVars, stop_pc, pub, nfault, ls, extVars>>

\* startSpiderFootScanner raises without recording a final status.
EngineRaise ==
    /\ wk.pc = "engine"
    /\ wk' = [wk EXCEPT !.pc = "finally", !.raised = TRUE]
    /\ UNCHANGED <<storeVars, brokerVars, supVars, stop_pc, pub, nfault, ls, extVars>>

\* The lifecycle run_scan_task publishes for a task-local final status.
FinalLifecycle(final) ==
    CASE final = "ABORTED" -> "ABORTED"
      [] final = "ERROR-FAILED" -> "FAILED"
      [] OTHER -> ""

\* run_scan_task's finally block: stop the bridge, read the task-local
\* final status, publish ABORTED / FAILED for it (_publish_lifecycle logs
\* and swallows a broker error), remove the task-local store.
RunFinally ==
    /\ wk.pc = "finally"
    /\ LET l == FinalLifecycle(wk.local) IN
       \E ok \in BOOLEAN :
          /\ l = "" => ok
          /\ wk' = [wk EXCEPT !.pc = "settle", !.final = wk.local, !.local = "NONE",
                        !.bridge = IF @ = "polling" THEN "exited" ELSE @,
                        !.pub_failed = ~ok,
                        !.published = IF l # "" /\ ok THEN Append(@, l) ELSE @,
                        !.pub_run = Len(wk.published) + (IF l # "" /\ ok THEN 1 ELSE 0)]
          /\ queue' = IF l # "" /\ ok THEN Route(queue, LifecycleMsg(l)) ELSE queue
    /\ UNCHANGED <<storeVars, queueExists, supVars, stop_pc, pub, nfault, ls, extVars>>

\* A handler that nacks the delivery after a failed ack.
OnAckFailure_Nack(w) == [w EXCEPT !.settlements = Append(@, "nack_false")]

\* What _on_message does when basic_ack raised after a successful scan:
\* it logs the failure.
OnAckFailure(w) == w

\* _on_message after run_scan_task: basic_ack when it returned, else
\* basic_nack(requeue=False); either call may raise and is then logged.
Settle ==
    /\ wk.pc = "settle"
    /\ \/ /\ ~wk.raised
          /\ \/ wk' = [wk EXCEPT !.pc = "done", !.succeeded = TRUE,
                                 !.settlements = Append(@, "ack")]
             \/ wk' = OnAckFailure([wk EXCEPT !.pc = "done", !.succeeded = TRUE,
                                       !.ack_raised = TRUE,
                                       !.settlements = Append(@, "ack")])
       \/ /\ wk.raised
          /\ wk' = [wk EXCEPT !.pc = "done", !.settlements = Append(@, "nack_false")]
    /\ UNCHANGED <<storeVars, brokerVars, supVars, stop_pc, pub, nfault, ls, extVars>>

\* The worker process dies while the engine runs: nothing of the finally
\* block runs and the task-local store stays on disk.
WorkerKill ==
    /\ wk.pc = "engine"
    /\ wk' = [wk EXCEPT !.pc = "killed", !.bridge = "off"]
    /\ UNCHANGED <<storeVars, brokerVars, supVars, stop_pc, pub, nfault, ls, extVars>>

\* A bridge that takes every status for an abort request.
should_abort_Always(st) == TRUE

\* _abort_bridge: should_abort = (row is None) or (row[5] ==
\* 'ABORT-REQUESTED'), on the control-plane row.
should_abort(st) == st \in {"ABORT-REQUESTED", "NONE"}

\* _abort_bridge, one poll that finds ABORT-REQUESTED or no scan row in the
\* control-plane store (stop_event not yet set).
BridgePoll ==
    /\ wk.bridge = "polling" /\ wk.pc = "engine"
    /\ should_abort(status)
    /\ wk' = [wk EXCEPT !.bridge = "write"]
    /\ UNCHANGED <<storeVars, brokerVars, supVars, stop_pc, pub, nfault, ls, extVars>>

\* _abort_bridge, the UPDATE on the task-local store: it exits once a row
\* was updated, otherwise it loops until stop_event is set.
BridgeWrite ==
    /\ wk.bridge = "write"
    /\ wk' = IF wk.local # "NONE"
             THEN [wk EXCEPT !.local = "ABORT-REQUESTED", !.bridge = "exited"]
             ELSE [wk EXCEPT !.bridge = IF wk.pc = "engine" THEN "polling" ELSE "exited"]
    /\ UNCHANGED <<storeVars, brokerVars, supVars, stop_pc, pub, nfault, ls, extVars>>

NextWorker ==
    \/ TaskDeliver
    \/ OnMessageParse
    \/ RunSetup
    \/ EngineStart
    \/ \E h \in Hashes : EngineEmit(h)
    \/ EngineFinish
    \/ EngineAbort
    \/ EngineFail
    \/ EngineRaise
    \/ RunFinally
    \/ Settle
    \/ WorkerKill
    \/ BridgePoll
    \/ BridgeWrite
    \/ StopScanCheck
    \/ StopScanWrite

InitWorker ==
    /\ InitCommon
    /\ queueExists = TRUE
    /\ nfault = 0
    /\ wk \in {NewWorker(b) : b \in BodyKinds}
    /\ ls = Dispatched

SpecWorker == InitWorker /\ [][NextWorker]_vars

\* =================================================================
\* The pipeline: the worker's executions feeding the supervisor
\* =================================================================
\* The engine eventually terminates (spec section 1).
EngineEnd == EngineFinish \/ EngineAbort \/ EngineFail \/ EngineRaise

NextPipeline ==
    \/ \E t \in Slots : ConsumerConnect(t)
    \/ \E t \in Slots : Deliver(t)
    \/ \E t \in Slots : HandleLifecycle(t)
    \/ \E t \in Slots : ConsumerExit(t)
    \/ StopScanCheck
    \/ StopScanWrite
    \/ Tick
    \/ MonitorRead
    \/ MonitorReap
    \/ MonitorStart
    \/ MonitorStop
    \/ MonitorWatchdog
    \/ MonitorStale
    \/ MonitorMark
    \/ TaskDeliver
    \/ OnMessageParse
    \/ RunSetup
    \/ EngineStart
    \/ \E h \in Hashes : EngineEmit(h)
    \/ EngineFinish
    \/ EngineAbort
    \/ EngineFail
    \/ EngineRaise
    \/ RunFinally
    \/ Settle
    \/ WorkerKill
    \/ BridgePoll
    \/ BridgeWrite

\* Scheduling on the worker: the callback and the bridge thread keep
\* running, the broker keeps delivering, the engine terminates.
FairWorker ==
    /\ WF_vars(TaskDeliver)
    /\ WF_vars(OnMessageParse)
    /\ WF_vars(RunSetup)
    /\ WF_vars(EngineStart)
    /\ WF_vars(EngineEnd)
    /\ WF_vars(RunFinally)
    /\ WF_vars(Settle)
    /\ WF_vars(BridgePoll)
    /\ WF_vars(BridgeWrite)

\* The pipeline is followed in a fault-free environment: the store and the
\* broker connections of the supervisor do not fail.
InitPipeline ==
    /\ InitCommon
    /\ queueExists = TRUE
    /\ nfault = MaxFaults
    /\ wk = NewWorker("task")
    /\ ls = Dispatched

SpecPipeline == InitPipeline /\ [][NextPipeline]_vars /\ FairSupervisor /\ FairWorker

\* The abort path: the pipeline from the moment run_scan_task has started
\* the abort bridge and the engine for the task's last delivery.
InitAbort ==
    /\ InitCommon
    /\ queueExists = TRUE
    /\ nfault = MaxFaults
    /\ wk = [NewWorker("task") EXCEPT !.pc = "engine", !.ndeliv = MaxDeliveries,
                                      !.bridge = "polling"]
    /\ ls = Dispatched

NextAbort ==
    \/ \E t \in Slots : ConsumerConnect(t)
    \/ \E t \in Slots : Deliver(t)
    \/ \E t \in Slots : HandleLifecycle(t)
    \/ \E t \in Slots : ConsumerExit(t)
    \/ StopScanCheck
    \/ StopScanWrite
    \/ Tick
    \/ MonitorRead
    \/ MonitorReap
    \/ MonitorStart
    \/ MonitorStop
    \/ MonitorWatchdog
    \/ MonitorStale
    \/ MonitorMark
    \/ EngineStart
    \/ \E h \in Hashes : EngineEmit(h)
    \/ EngineFinish
    \/ EngineAbort
    \/ EngineFail
    \/ EngineRaise
    \/ RunFinally
    \/ Settle
    \/ WorkerKill
    \/ BridgePoll
    \/ BridgeWrite

SpecAbort == InitAbort /\ [][NextAbort]_vars /\ FairSupervisor /\ FairWorker

\* =================================================================
\* Properties of the supervisor (specification Spec)
\* =================================================================

\* C1: after any sequence of event deliveries tbl_scan_results holds at
\* most one row for each (scan_id, hash).
C1_AtMostOneRowPerHash == \A h \in Hashes : rows[h] <= 1

\* C2: once the status is terminal, no consumer lifecycle handling and no
\* watchdog step changes it (stop_scan's own write is not a supervisor
\* action and is left out).
C2_TerminalStatusIsFinal ==
    [][(status \in Terminal /\ ~StopScanWrite) => status' = status]_vars

\* A consumer thread is consuming while it is alive and either subscribed
\* to the queue or still handling a delivery it took from it.
Consuming(t) == is_alive(t) /\ (thr[t].consuming \/ thr[t].msg # NoMsg)

\* C6: at every moment at most one consumer thread of the scan is alive
\* and consuming from scan.results.{scan_id}.
C6_AtMostOneConsumer == Cardinality({t \in Slots : Consuming(t)}) <= 1

\* C7: if the status was terminal when the monitor iteration read the
\* active scans, no consumer is tracked for the scan when the iteration
\* ends.
C7_TerminalScanUntracked ==
    (mon_pc = "sleep" /\ termAtRead) => consumers = NoThread

\* C7 witness: an iteration that read a terminal status has ended with the
\* scan untracked while its stopped consumer thread is still alive.
C7_Witness ==
    /\ mon_pc = "sleep" /\ termAtRead /\ status \in Terminal
    /\ consumers = NoThread
    /\ \E t \in Slots : is_alive(t) /\ thr[t].stop_event

\* =================================================================
\* Properties of the worker (specification SpecWorker)
\* =================================================================
InSeq(x, sq) == \E i \in 1..Len(sq) : sq[i] = x

\* run_scan_task ran the engine and its finally block for this delivery.
ExecutionOver == wk.pc \in {"settle", "done"} /\ wk.bridge # "off"

\* C3: an execution publishes at most one lifecycle message and it names
\* the terminal state that occurred: FINISHED on normal completion (by the
\* sink's finished(), given the sink holds a channel), ABORTED iff the
\* task-local final status is ABORTED, FAILED iff it is ERROR-FAILED (by
\* run_scan_task, given the broker accepted the publish).
C3_LifecycleNamesOutcome ==
    ExecutionOver =>
        /\ Len(wk.published) <= 1
        /\ (wk.normal /\ wk.sink_channel) => wk.published = <<"FINISHED">>
        /\ InSeq("FINISHED", wk.published) => wk.normal
        /\ ~wk.pub_failed => (InSeq("ABORTED", wk.published) <=> wk.final = "ABORTED")
        /\ ~wk.pub_failed => (InSeq("FAILED", wk.published) <=> wk.final = "ERROR-FAILED")

\* The callback has finished with the delivery, by return or by exception.
DeliveryHandled == wk.pc \in {"done", "crashed"}

\* C9: for every delivery exactly one settlement is attempted: basic_ack
\* iff run_scan_task returned without raising, basic_nack(requeue=False)
\* for a body that is not valid JSON and for a run that raised; never a
\* nack with requeue=True.
C9_ExactlyOneSettlement ==
    DeliveryHandled =>
        /\ Len(wk.settlements) = 1
        /\ wk.settlements[1] \in {"ack", "nack_false"}
        /\ wk.settlements[1] = "ack" <=> (wk.body = "task" /\ ~wk.raised)
        /\ wk.body = "badjson" => wk.bridge = "off"

\* C10: when the scan succeeded and basic_ack raised, the delivery is not
\* nacked and nothing more is published: the only settlement attempt is the
\* ack and the messages published are those run_scan_task had published
\* when it returned.
C10_AckFailureOnlyLogs ==
    (wk.pc = "done" /\ wk.succeeded /\ wk.ack_raised) =>
        /\ wk.settlements = <<"ack">>
        /\ Len(wk.published) = wk.pub_run

\* C10 witness: a delivery whose scan succeeded and whose ack raised.
C10_Witness ==
    /\ wk.pc = "done" /\ wk.succeeded /\ wk.ack_raised
    /\ wk.settlements = <<"ack">>

\* =================================================================
\* Properties of the supervisor under fair scheduling (SpecFair)
\* =================================================================

SupervisorSettled ==
    /\ status \notin ActiveStatuses
    /\ consumers = NoThread
    /\ \A t \in Slots : ~is_alive(t)
    /\ mon_pc = "sleep"

\* C8: when the task was delivered K >= 1 times, the earlier deliveries
\* ending in a worker crash, and the last execution completed with a
\* terminal task-local status, the final control-plane status is that
\* status.
C8_FinalStatusOfCompletedExecution ==
    (wk.pc = "done" /\ wk.final \in Terminal /\ SupervisorSettled)
        => status = wk.final

\* =================================================================
\* The dispatcher: launch_scan and its local fallback (SpecLaunch)
\* =================================================================
\* What one call of launch_scan leaves alone.
launchFrame == <<rows, queue, consumers, thr, mon_pc, running_scans, termAtRead,
                 stop_pc, pub, nfault, wk, extVars>>

\* Lines 111-128: the first availability check picks the storage module.
LaunchSelectStorage ==
    /\ ls.pc = "modules"
    /\ \E avail \in BOOLEAN :
          ls' = [ls EXCEPT !.pc = "dispatch",
                           !.modlist = SelectStorage(@, ls.url /\ avail)]
    /\ UNCHANGED <<status, queueExists, launchFrame>>

\* Line 140: the second availability check picks broker dispatch or the
\* local fallback.
LaunchDispatchCheck ==
    /\ ls.pc = "dispatch"
    /\ \E avail \in BOOLEAN :
          ls' = [ls EXCEPT !.pc = IF ls.url /\ avail THEN "create" ELSE "fallback"]
    /\ UNCHANGED <<status, queueExists, launchFrame>>

\* SpiderFootDb.scanInstanceCreate: a plain INSERT with status CREATED; it
\* raises when the id exists (guid is the primary key) or the store fails.
scanInstanceCreate(st, ok) == IF st = "NONE" /\ ok THEN "CREATED" ELSE st

\* A dispatcher that goes on to the local fallback when the row could not
\* be written.
OnRowFailure_Fallback(l) == [l EXCEPT !.pc = "fallback", !.row_failed = TRUE]

\* Lines 150-152: the except clause of the row's creation logs the error
\* and returns ("ERROR", message).
OnRowFailure(l) == [l EXCEPT !.pc = "returned", !.ret = "ERROR", !.row_failed = TRUE]

\* Lines 146-148: create the scan row; an exception returns ERROR.
LaunchCreate ==
    /\ ls.pc = "create"
    /\ \E ok \in BOOLEAN :
          /\ status' = scanInstanceCreate(status, ok)
          /\ ls' = IF status = "NONE" /\ ok
                   THEN [ls EXCEPT !.pc = "set", !.row_creates = @ + 1]
                   ELSE [OnRowFailure(ls) EXCEPT !.row_creates = @ + 1,
                                                 !.create_failed = (status # "NONE")]
    /\ UNCHANGED <<queueExists, launchFrame>>

\* A dispatcher that leaves the row as scanInstanceCreate wrote it.
DispatchStatus_Unset(st) == st

\* Line 149: scanInstanceSet(scan_id, started=now, status='RUNNING').
DispatchStatus(st) == scanInstanceSet(st, "RUNNING")

\* Lines 149-152: set the row RUNNING; an exception returns ERROR.
LaunchSetRunning ==
    /\ ls.pc = "set"
    /\ \/ /\ status' = DispatchStatus(status)
          /\ ls' = [ls EXCEPT !.pc = "predeclare"]
       \/ /\ ls' = OnRowFailure(ls)
          /\ UNCHANGED status
    /\ UNCHANGED <<queueExists, launchFrame>>

\* Line 168: pre_declare_result_queue declares and binds the queue, or
\* logs the error and returns False; launch_scan drops the result.
LaunchPreDeclare ==
    /\ ls.pc = "predeclare"
    /\ \E ok \in BOOLEAN :
          /\ queueExists' = (queueExists \/ ok)
          /\ ls' = [ls EXCEPT !.pc = "publish", !.predeclared = "called"]
    /\ UNCHANGED <<status, launchFrame>>

\* Lines 170-173: publish_scan_task returns True after basic_publish and
\* close, False when connecting or publishing raised, and False as well
\* when close raised after the task was published.
LaunchPublish ==
    /\ ls.pc = "publish"
    /\ \E r \in {"published", "failed", "close_failed"} :
          ls' = [ls EXCEPT !.task_published = (r # "failed"),
                           !.pc = IF r = "published" THEN "returned" ELSE "fallback",
                           !.ret = IF r = "published" THEN "SUCCESS" ELSE @]
    /\ UNCHANGED <<status, queueExists, launchFrame>>

\* Lines 175-194: start startSpiderFootScanner in a local subprocess with
\* modlist; SUCCESS unless starting the process raised.
LaunchFallback ==
    /\ ls.pc = "fallback"
    /\ \/ ls' = [ls EXCEPT !.pc = "returned", !.ret = "SUCCESS",
                            !.scanner = "started", !.scanner_modlist = ls.modlist]
       \/ ls' = [ls EXCEPT !.pc = "returned", !.ret = "ERROR"]
    /\ UNCHANGED <<status, queueExists, launchFrame>>

\* The local scanner creates the scan row in the store of its
\* configuration, here the control-plane store.
ScannerCreateRow ==
    /\ ls.scanner = "started"
    /\ status' = scanInstanceCreate(status, TRUE)
    /\ ls' = [ls EXCEPT !.row_creates = @ + 1,
                        !.create_failed = @ \/ status # "NONE",
                        !.scanner = IF status = "NONE" THEN "running"
                                    ELSE "create_failed"]
    /\ UNCHANGED <<queueExists, launchFrame>>

\* The local scanner runs to its end.
ScannerFinish ==
    /\ ls.scanner = "running"
    /\ status' = scanInstanceSet(status, "FINISHED")
    /\ ls' = [ls EXCEPT !.scanner = "finished"]
    /\ UNCHANGED <<queueExists, launchFrame>>

NextLaunch ==
    \/ LaunchSelectStorage
    \/ LaunchDispatchCheck
    \/ LaunchCreate
    \/ LaunchSetRunning
    \/ LaunchPreDeclare
    \/ LaunchPublish
    \/ LaunchFallback
    \/ ScannerCreateRow
    \/ ScannerFinish

\* launch_scan is called for a fresh scan_id: no row, no result queue.
InitLaunch ==
    /\ ExtIdle
    /\ status = "NONE"
    /\ rows = [h \in Hashes |-> 0]
    /\ queue = <<>>
    /\ queueExists = FALSE
    /\ consumers = NoThread
    /\ thr = [t \in Slots |-> Unborn]
    /\ mon_pc = "sleep"
    /\ running_scans = FALSE
    /\ termAtRead = FALSE
    /\ stop_pc = "idle"
    /\ pub = [n |-> 0, finished |-> FALSE, other |-> FALSE]
    /\ nfault = 0
    /\ wk = NewWorker("task")
    /\ ls \in {NewLaunch(url, ml) : url \in BOOLEAN, ml \in SUBSET StorageModules}

SpecLaunch == InitLaunch /\ [][NextLaunch]_vars

\* C12: in broker dispatch the result queue is pre-declared only with the
\* scan row RUNNING, and the task is published only with the row RUNNING
\* and after the pre-declaration was attempted.
C12_RowThenQueueThenTask ==
    [][/\ (ls.predeclared = "none" /\ ls'.predeclared # "none") =>
            (status = "RUNNING" /\ ~ls.task_published)
       /\ (~ls.task_published /\ ls'.task_published) =>
            (status = "RUNNING" /\ ls.predeclared # "none")]_vars

\* C12 witness: the task was published and launch_scan returned SUCCESS.
C12_Witness ==
    ls.task_published /\ ls.ret = "SUCCESS" /\ ls.scanner = "none"

\* C13: whenever the task has been published the result queue is declared
\* and bound.
C13_QueueBoundWhenTaskPublished == ls.task_published => queueExists

\* C19: the module list handed to the local scanner names the direct
\* store and not the broker sink.
C19_FallbackStoresDirectly ==
    ls.scanner # "none" =>
        /\ "sfp__stor_db" \in ls.scanner_modlist
        /\ "sfp__stor_rabbitmq" \notin ls.scanner_modlist

\* C20: creation of the scan row is attempted at most once and never
\* fails on a duplicate id.
C20_RowCreatedOnce == ls.row_creates <= 1 /\ ~ls.create_failed

\* =================================================================
\* Events buffered in the pre-declared queue (SpecBuffer)
\* =================================================================
MaxBuffered == 2
BufHashes == 1..MaxBuffered

RECURSIVE DistinctEventSeqs(_)
\* The sequences of event messages with pairwise distinct hashes from hs.
DistinctEventSeqs(hs) ==
    {<<>>} \cup UNION {{<<EventMsg(h)>> \o q : q \in DistinctEventSeqs(hs \ {h})} :
                          h \in hs}

\* pre_declare_result_queue succeeded and M >= 1 events with distinct
\* hashes were published before the monitor's first iteration.
InitBuffer ==
    /\ ExtIdle
    /\ status = "RUNNING"
    /\ rows = [h \in BufHashes |-> 0]
    /\ queue \in DistinctEventSeqs(BufHashes) \ {<<>>}
    /\ queueExists = TRUE
    /\ consumers = NoThread
    /\ thr = [t \in Slots |-> Unborn]
    /\ mon_pc = "sleep"
    /\ running_scans = FALSE
    /\ termAtRead = FALSE
    /\ stop_pc = "idle"
    /\ pub = [n |-> 0, finished |-> FALSE, other |-> FALSE]
    /\ nfault = 0
    /\ wk = NewWorker("task")
    /\ ls = Dispatched

\* The consumer thread has something to do right now: connect, dispatch a
\* ready message (process_data_events(time_limit=1)), finish a handler,
\* or leave its loop.
ConsumerBusy(t) ==
    \/ thr[t].pc \in {"starting", "event", "lifecycle"}
    \/ /\ thr[t].pc = "loop"
       /\ \/ thr[t].stop_event \/ ~thr[t].consuming \/ ~thr[t].is_open
          \/ queueExists /\ queue # <<>>

\* Minutes pass only between two iterations of the monitor (one iteration
\* takes far less, and "now" is read once for step 4) and only while every
\* consumer thread waits for messages: a thread that has something to do
\* does it within seconds.
TickIdle ==
    /\ mon_pc = "sleep"
    /\ \A t \in Slots : ~ConsumerBusy(t)
    /\ Tick

NextBuffer ==
    \/ \E t \in Slots : ConsumerConnect(t)
    \/ \E t \in Slots : Deliver(t)
    \/ \E t \in Slots : HandleEvent(t)
    \/ \E t \in Slots : ConsumerExit(t)
    \/ \E t \in Slots : ConnectionLost(t)
    \/ TickIdle
    \/ MonitorRead
    \/ MonitorReap
    \/ MonitorStart
    \/ MonitorStop
    \/ MonitorWatchdog
    \/ MonitorStale
    \/ MonitorMark

FairBuffer ==
    /\ \A t \in Slots :
          /\ WF_vars(ConsumerConnect(t))
          /\ WF_vars(Deliver(t))
          /\ WF_vars(HandleEvent(t))
          /\ WF_vars(ConsumerExit(t))
    /\ WF_vars(TickIdle)
    /\ WF_vars(MonitorRead)
    /\ WF_vars(MonitorReap)
    /\ WF_vars(MonitorStart)
    /\ WF_vars(MonitorStop)
    /\ WF_vars(MonitorWatchdog)
    /\ WF_vars(MonitorStale)
    /\ WF_vars(MonitorMark)

SpecBuffer == InitBuffer /\ [][NextBuffer]_vars /\ FairBuffer

\* C14: every event buffered in the pre-declared queue is eventually
\* persisted once the monitor runs.
C14_BufferedEventsPersisted ==
    \A h \in BufHashes : InSeq(EventMsg(h), queue) ~> (rows[h] > 0)

\* C14 witness: every buffered event has a row although a store fault
\* interrupted the consumer on the way.
C14_Witness ==
    /\ \A h \in BufHashes : rows[h] > 0
    /\ nfault > 0

\* =================================================================
\* Error handling of the worker (SpecWorker)
\* =================================================================
\* startSpiderFootScanner raised inside run_scan_task's try block (the
\* abort bridge was started, unlike for an exception of the set-up).
EngineRaised == wk.raised /\ wk.bridge # "off"

\* C11: when the engine raised during run_scan_task, the handled delivery
\* has published a FAILED lifecycle message and was nacked without requeue.
C11_RaiseLeadsToFailedAndNack ==
    (wk.pc = "done" /\ EngineRaised)
        => /\ InSeq("FAILED", wk.published)
           /\ wk.settlements = <<"nack_false">>

\* =================================================================
\* Queue ownership and lifecycle handling of the consumer (Spec)
\* =================================================================
\* Thread t leaves its consume loop and dies in this step.
Exits(t) == thr[t].pc = "loop" /\ thr'[t].pc \in {"dead", "unborn"}

\* C16: the result queue disappears only in the exit of a consumer that
\* received a lifecycle message and whose channel is open; the exit of any
\* other consumer leaves the queue and its pending messages as they were.
C16_QueueDeletedOnlyAfterLifecycle ==
    [][/\ (queueExists /\ ~queueExists') =>
            \E t \in Slots : Exits(t) /\ thr[t].lifecycle_received /\ thr[t].is_open
       /\ \A t \in Slots :
            (Exits(t) /\ ~(thr[t].lifecycle_received /\ thr[t].is_open)) =>
                (queue' = queue /\ queueExists' = queueExists)]_vars

\* C16 witness: a consumer that never received a lifecycle message has
\* exited and the queue still holds pending messages.
C16_Witness ==
    \E t \in Slots :
        /\ thr[t].pc = "dead" /\ ~thr[t].lifecycle_received
        /\ queueExists /\ queue # <<>>

\* Thread t's lifecycle branch ran to its basic_ack in this step (no
\* store error).
HandlesLifecycle(t) ==
    thr[t].pc = "lifecycle" /\ thr'[t].pc = "loop" /\ nfault' = nfault

C18_FinishedWhateverCorrelations ==
    [][\A t \in Slots :
          (HandlesLifecycle(t) /\ thr[t].msg.lifecycle = "FINISHED") =>
              (thr'[t].corr \in {"completed", "error"} /\ status' = "FINISHED")]_vars

\* C18 witness: the correlation subprocess ended in one of the logged
\* errors (timeout, OOM kill, exit code, launch failure) and the status is
\* FINISHED.
C18_Witness ==
    \E t \in Slots :
        thr[t].corr = "error" /\ status = "FINISHED"

\* C15: a lifecycle message that reaches the consumer ahead of event
\* messages of the scan loses none of them: the result queue is never
\* deleted while it holds an event message whose hash has no row yet.
C15_NoEventLostBehindLifecycle ==
    [][(queueExists /\ ~queueExists') =>
          \A i \in 1..Len(queue) :
              queue[i].kind = "event" => rows[queue[i].hash] > 0]_vars

\* Task classification (SpecClassify)
\* =================================================================
\* Longest module-list string classified.
MaxLen == 4

\* The characters of a module-list string: two letters, the separator and
\* a blank.
Chars == {"p", "q", ",", " "}

\* The slow set, as names over the two letters (SLOW_MODULES lists
\* thirteen names; membership is all that classify_modules asks of it).
SLOW_MODULES == {<<"p">>, <<"q", "p">>}

QUEUE_FAST == "scans.fast"
QUEUE_SLOW == "scans.slow"

\* The strings of at most n characters.
RECURSIVE Strings(_)
Strings(n) ==
    IF n = 0 THEN {<<>>}
    ELSE LET shorter == Strings(n - 1) IN
         shorter \cup {Append(str, c) : str \in {x \in shorter : Len(x) = n - 1},
                                        c \in Chars}

\* str.split(','): the fields between the separators, in order.
RECURSIVE split(_)
split(str) ==
    IF \A i \in 1..Len(str) : str[i] # "," THEN <<str>>
    ELSE LET k == CHOOSE i \in 1..Len(str) :
                     str[i] = "," /\ \A j \in 1..(i - 1) : str[j] # ","
         IN <<SubSeq(str, 1, k - 1)>> \o split(SubSeq(str, k + 1, Len(str)))

\* str.strip(): leading and trailing blanks removed.
RECURSIVE strip(_)
strip(str) ==
    IF str = <<>> THEN str
    ELSE IF Head(str) = " " THEN strip(Tail(str))
    ELSE IF str[Len(str)] = " " THEN strip(SubSeq(str, 1, Len(str) - 1))
    ELSE str

\* A classify_modules that compares the untrimmed names.
classify_modules_Untrimmed(module_list) ==
    IF module_list = <<>> THEN "fast"
    ELSE LET fields == split(module_list)
             mods == {fields[i] : i \in 1..Len(fields)} \ {<<>>}
         IN IF mods \cap SLOW_MODULES # {} THEN "slow" ELSE "fast"

\* classify_modules: 'slow' if any trimmed, non-empty name of the list is
\* in SLOW_MODULES, else 'fast'.
classify_modules(module_list) ==
    IF module_list = <<>> THEN "fast"
    ELSE LET fields == split(module_list)
             mods == {strip(fields[i]) : i \in 1..Len(fields)} \ {<<>>}
         IN IF mods \cap SLOW_MODULES # {} THEN "slow" ELSE "fast"

_queue_name(queue_type) == IF queue_type = "slow" THEN QUEUE_SLOW ELSE QUEUE_FAST

\* The scan's supervisor, worker and dispatcher at rest.
ScanAtRest ==
    /\ status = "RUNNING"
    /\ rows = [h \in Hashes |-> 0]
    /\ queue = <<>>
    /\ queueExists = TRUE
    /\ consumers = NoThread
    /\ thr = [t \in Slots |-> Unborn]
    /\ mon_pc = "sleep"
    /\ running_scans = FALSE
    /\ termAtRead = FALSE
    /\ stop_pc = "idle"
    /\ pub = [n |-> 0, finished |-> FALSE, other |-> FALSE]
    /\ nfault = 0
    /\ wk = NewWorker("task")
    /\ ls = Dispatched

\* launch_scan line 141: queue_type = classify_modules(modlist_str).
Classify ==
    /\ cm.pc = "classify"
    /\ cm' = [cm EXCEPT !.pc = "publish",
                        !.queue_type = classify_modules(cm.module_list)]
    /\ UNCHANGED cmFrame

\* publish_scan_task: the task goes to the queue _queue_name names.
PublishTask ==
    /\ cm.pc = "publish"
    /\ cm' = [cm EXCEPT !.pc = "published", !.queue = _queue_name(cm.queue_type)]
    /\ UNCHANGED cmFrame

NextClassify == Classify \/ PublishTask

\* A task with any module-list string of at most MaxLen characters.
InitClassify ==
    /\ ScanAtRest
    /\ pb = NoPublisher
    /\ mgr = NoManager
    /\ sf = NoStoreFile
    /\ hm = NoHandle
    /\ wd = NoWatch
    /\ ing = NoIngest
    /\ reg = NoRegistry
    /\ cm \in {[NoTask EXCEPT !.pc = "classify", !.module_list = str] :
                  str \in Strings(MaxLen)}

SpecClassify == InitClassify /\ [][NextClassify]_vars

\* The names of a module-list string: the trimmed, non-empty stretches
\* between separators (ends of the string included).
IsField(str, i, j) ==
    /\ i <= j + 1
    /\ i = 1 \/ str[i - 1] = ","
    /\ j = Len(str) \/ str[j + 1] = ","
    /\ \A k \in i..j : str[k] # ","

NamesSlow(str) ==
    \E i \in 1..(Len(str) + 1), j \in 0..Len(str) :
        /\ IsField(str, i, j)
        /\ \E a \in i..j, b \in i..j :
              /\ a <= b
              /\ \A k \in i..(a - 1) : str[k] = " "
              /\ \A k \in (b + 1)..j : str[k] = " "
              /\ SubSeq(str, a, b) \in SLOW_MODULES

\* C21: a published task is on scans.slow iff a trimmed, non-empty name of
\* its module list is in the slow set, and on scans.fast otherwise (so the
\* empty list is fast).
C21_SlowIffSomeSlowName ==
    cm.pc = "published" =>
        /\ cm.queue \in {QUEUE_SLOW, QUEUE_FAST}
        /\ (cm.queue = QUEUE_SLOW) <=> NamesSlow(cm.module_list)
        /\ cm.module_list = <<>> => cm.queue = QUEUE_FAST

\* C21 witness: a list of two names, exactly one of them slow and written
\* with a blank before it, was published to scans.slow.
C21_Witness ==
    /\ cm.pc = "published"
    /\ cm.module_list = <<"q", ",", " ", "p">>
    /\ cm.queue = QUEUE_SLOW

\* The result sink (SpecWorker)
\* =================================================================
\* C22: every event handed to the sink while it holds a channel is
\* published once, with its hash, to exchange scan.results under the
\* scan's routing key.
C22_SinkPublishesEachEvent ==
    [][\A h \in Hashes :
          (EngineEmit(h) /\ wk.sink_channel) => queue' = Append(queue, EventMsg(h))]_vars

\* The watchdog's threshold, to the second (SpecWatchdog)
\* =================================================================
\* Deliveries the watched consumer receives.
MaxWatchDeliveries == 1
\* The clock runs to this many seconds past two timeouts.
MaxOverrun == 1

\* Amounts of time that pass between two steps: half the timeout, and a
\* second less or more than that.
Lapses == {(STALE_CONSUMER_TIMEOUT \div 2) - 1, STALE_CONSUMER_TIMEOUT \div 2,
           (STALE_CONSUMER_TIMEOUT \div 2) + 1}

\* time.time() advances.
Lapse ==
    /\ wd.pc = "tracked"
    /\ \E d \in Lapses :
          /\ wd.now + d <= 2 * STALE_CONSUMER_TIMEOUT + MaxOverrun
          /\ wd' = [wd EXCEPT !.now = @ + d]
    /\ UNCHANGED wdFrame

\* _handle_message, first statement: last_message_time = time.time().
WatchedDelivery ==
    /\ wd.pc = "tracked"
    /\ wd.deliveries < MaxWatchDeliveries
    /\ wd' = [wd EXCEPT !.last_message_time = wd.now, !.deliveries = @ + 1]
    /\ UNCHANGED wdFrame

\* Step 4 of a monitor iteration for the tracked consumer: idle_secs is
\* computed from now and last_message_time and tested; a stale consumer is
\* stopped and popped.
WatchdogCheck ==
    /\ wd.pc = "tracked"
    /\ LET idle == wd.now - wd.last_message_time IN
       wd' = [wd EXCEPT !.idle_secs = idle,
                        !.fired = IsStale([idle_secs |-> idle]),
                        !.pc = IF IsStale([idle_secs |-> idle]) THEN "popped" ELSE "tracked"]
    /\ UNCHANGED wdFrame

NextWatchdog == Lapse \/ WatchedDelivery \/ WatchdogCheck

\* A consumer has just been created (last_message_time = now) and tracked.
InitWatchdog ==
    /\ ScanAtRest
    /\ pb = NoPublisher
    /\ mgr = NoManager
    /\ sf = NoStoreFile
    /\ hm = NoHandle
    /\ cm = NoTask
    /\ ing = NoIngest
    /\ reg = NoRegistry
    /\ wd = [NoWatch EXCEPT !.pc = "tracked"]

SpecWatchdog == InitWatchdog /\ [][NextWatchdog]_vars

\* C23: in a monitor iteration the watchdog fires for a tracked consumer
\* iff at least 600 s have passed since its last delivery (its creation
\* when it had none): it does not fire at 599 s and fires at 600 s.
C23_WatchdogFiresAtTimeout ==
    [][WatchdogCheck =>
          /\ wd'.fired <=> (wd.now - wd.last_message_time >= 600)
          /\ (wd.now - wd.last_message_time = 599) => wd'.pc = "tracked"
          /\ (wd.now - wd.last_message_time = 600) => wd'.pc = "popped"]_vars

\* C23 witness: the watchdog fired exactly 600 s after the consumer's
\* last delivery.
C23_Witness ==
    /\ wd.fired /\ wd.pc = "popped"
    /\ wd.deliveries > 0 /\ wd.last_message_time > 0
    /\ wd.now - wd.last_message_time = 600
    /\ wd.idle_secs = 600

\* Ingestion of one event message (SpecIngest)
\* =================================================================
\* Deliveries of the event message to the consumer.
MaxIngestDeliveries == 2

\* Values of confidence, visibility and risk in a message: the ends of the
\* range and the integers next to them.
Levels == {-1, 0, 100, 101}

InRange(v) == 0 <= v /\ v <= 100

\* The broker delivers the message (again, after nack with requeue).
IngestDeliver ==
    /\ ing.pc = "queued"
    /\ ing.deliveries < MaxIngestDeliveries
    /\ ing' = [ing EXCEPT !.pc = "build", !.deliveries = @ + 1]
    /\ UNCHANGED ingFrame

\* SpiderFootEvent's setters for confidence, visibility and risk: for a
\* value outside 0..100 the setter raises or the value is kept as given.
SetterOutcomes(v) == IF InRange(v) THEN {"set"} ELSE {"set", "raised"}

\* _handle_message builds the event and sets its attributes from the
\* message; an exception is nacked with requeue=True.
IngestBuild ==
    /\ ing.pc = "build"
    /\ \E oc \in SetterOutcomes(ing.confidence), ov \in SetterOutcomes(ing.visibility),
          orr \in SetterOutcomes(ing.risk) :
          IF "raised" \in {oc, ov, orr}
          THEN ing' = [ing EXCEPT !.pc = "queued", !.rejected_by = "setter"]
          ELSE ing' = [ing EXCEPT !.pc = "dupcheck"]
    /\ UNCHANGED ingFrame

\* The duplicate SELECT: a row with the hash exists or not.
IngestDupCheck ==
    /\ ing.pc = "dupcheck"
    /\ ing' = IF ing.rows > 0
              THEN [ing EXCEPT !.pc = "done", !.acked = TRUE]
              ELSE [ing EXCEPT !.pc = "store"]
    /\ UNCHANGED ingFrame

\* A scanEventStore that does not test the ranges.
scanEventStoreChecks_TypesOnly(e) == TRUE

\* scanEventStore's tests on confidence, visibility and risk (the values
\* of a JSON message being integers already).
scanEventStoreChecks(e) ==
    InRange(e.confidence) /\ InRange(e.visibility) /\ InRange(e.risk)

\* scanEventStore: validate, then INSERT; then basic_ack.  ValueError is
\* nacked with requeue=True.
IngestStore ==
    /\ ing.pc = "store"
    /\ ing' = IF scanEventStoreChecks(ing)
              THEN [ing EXCEPT !.pc = "done", !.rows = @ + 1, !.acked = TRUE]
              ELSE [ing EXCEPT !.pc = "queued", !.rejected_by = "store"]
    /\ UNCHANGED ingFrame

NextIngest == IngestDeliver \/ IngestBuild \/ IngestDupCheck \/ IngestStore

\* An event message with any confidence, visibility and risk is in the
\* result queue.
InitIngest ==
    /\ ScanAtRest
    /\ pb = NoPublisher
    /\ mgr = NoManager
    /\ sf = NoStoreFile
    /\ hm = NoHandle
    /\ cm = NoTask
    /\ wd = NoWatch
    /\ reg = NoRegistry
    /\ ing \in {[NoIngest EXCEPT !.pc = "queued", !.confidence = c,
                                 !.visibility = v, !.risk = r] :
                   c \in Levels, v \in Levels, r \in Levels}

SpecIngest == InitIngest /\ [][NextIngest]_vars

OutOfRange ==
    ~InRange(ing.confidence) \/ ~InRange(ing.visibility) \/ ~InRange(ing.risk)

\* C24: an event message whose confidence, visibility or risk is outside
\* 0..100 never gets a row in tbl_scan_results.
C24_OutOfRangeNeverStored == OutOfRange => ing.rows = 0

\* C24 witness: a message with risk 101 and the other two in range went
\* through the setters and the duplicate check and was refused by
\* scanEventStore.
C24_Witness ==
    /\ ing.risk = 101 /\ InRange(ing.confidence) /\ InRange(ing.visibility)
    /\ ing.rejected_by = "store" /\ ing.rows = 0 /\ ~ing.acked

\* The worker registry, for one worker_id (SpecRegistry)
\* =================================================================
\* Heartbeat requests for the worker_id.
MaxHeartbeats == 2
\* Times the clock advances.
MaxLapses == 2

\* workerOfflineStale(max_age_seconds=60).
OfflineAge == 60
\* WORKER_CLEANUP_TIMEOUT's default.
worker_cleanup_timeout == 300
\* Step 5 runs the sweep when 120 s have passed since the last one.
SweepPeriod == 120

\* Amounts of time between two steps: around the offline age, and past
\* the cleanup timeout.
RegLapses == {OfflineAge, OfflineAge + 1, worker_cleanup_timeout + 1}

\* The (status, current_scan) pairs worker.py sends.
HeartbeatBodies ==
    {[status |-> "idle", current_scan |-> ""],
     [status |-> "busy", current_scan |-> "scan"],
     [status |-> "offline", current_scan |-> ""]}

NoRow == [exists |-> FALSE, status |-> "", current_scan |-> "", last_seen |-> 0]

\* A workerRegister that inserts nothing.
workerRegister_Nothing(row, now) == row

\* workerRegister: INSERT ... ON CONFLICT(id) DO UPDATE, status 'idle'.
workerRegister(row, now) ==
    [exists |-> TRUE, status |-> "idle",
     current_scan |-> IF row.exists THEN row.current_scan ELSE "",
     last_seen |-> now]

\* workerHeartbeat: UPDATE ... WHERE id=? (no row: nothing is updated and
\* nothing is raised).
workerHeartbeat(row, st, cs, now) ==
    IF row.exists
    THEN [row EXCEPT !.status = st, !.current_scan = cs, !.last_seen = now]
    ELSE row

\* workerOfflineStale: rows that are not offline and were last seen before
\* the cutoff become offline.
workerOfflineStale(row, now, max_age_seconds) ==
    IF row.exists /\ row.status # "offline" /\ row.last_seen < now - max_age_seconds
    THEN [row EXCEPT !.status = "offline"]
    ELSE row

\* SpiderFootDb defines workerRegister, workerHeartbeat, workerList,
\* workerGet and workerOfflineStale; it has no workerDeleteOffline, so the
\* call in _cleanup_offline_workers raises AttributeError.
HasWorkerDeleteOffline == FALSE

\* The moment the row's status became offline, kept beside the row.
OfflineSince(old, new, since, now) ==
    IF new.exists /\ new.status = "offline" /\ ~(old.exists /\ old.status = "offline")
    THEN now ELSE since

\* time.time() advances (the two store calls of a sweep follow each other
\* within the same second).
RegLapse ==
    /\ reg.lapses < MaxLapses
    /\ reg.sweep_pc = "idle"
    /\ \E d \in RegLapses : reg' = [reg EXCEPT !.now = @ + d, !.lapses = @ + 1]
    /\ UNCHANGED regFrame

\* A heartbeat request arrives.
HeartbeatArrive ==
    /\ Len(reg.hb) < MaxHeartbeats
    /\ \E b \in HeartbeatBodies :
          reg' = [reg EXCEPT !.hb = Append(@, [pc |-> "get", body |-> b,
                                                existing |-> FALSE])]
    /\ UNCHANGED regFrame

\* worker_heartbeat: existing = dbh.workerGet(worker_id); a store error
\* ends the request with status 500.
HeartbeatGet(i) ==
    /\ i <= Len(reg.hb)
    /\ reg.hb[i].pc = "get"
    /\ \/ reg' = [reg EXCEPT !.hb[i].existing = reg.row.exists,
                             !.hb[i].pc = IF reg.row.exists THEN "update" ELSE "register"]
       \/ reg' = [reg EXCEPT !.hb[i].pc = "failed"]
    /\ UNCHANGED regFrame

\* worker_heartbeat: workerRegister when existing is None.
HeartbeatRegister(i) ==
    /\ i <= Len(reg.hb)
    /\ reg.hb[i].pc = "register"
    /\ \/ LET new == workerRegister(reg.row, reg.now) IN
          reg' = [reg EXCEPT !.row = new, !.hb[i].pc = "update",
                             !.offline_since = OfflineSince(reg.row, new, @, reg.now)]
       \/ reg' = [reg EXCEPT !.hb[i].pc = "failed"]
    /\ UNCHANGED regFrame

\* worker_heartbeat: workerHeartbeat, then 204.
HeartbeatUpdate(i) ==
    /\ i <= Len(reg.hb)
    /\ reg.hb[i].pc = "update"
    /\ \/ LET b == reg.hb[i].body
              new == workerHeartbeat(reg.row, b.status, b.current_scan, reg.now) IN
          reg' = [reg EXCEPT !.row = new, !.hb[i].pc = "ok",
                             !.offline_since = OfflineSince(reg.row, new, @, reg.now)]
       \/ reg' = [reg EXCEPT !.hb[i].pc = "failed"]
    /\ UNCHANGED regFrame

\* Step 5 of a monitor iteration: the sweep is due.
SweepDue ==
    /\ reg.sweep_pc = "idle"
    /\ reg.now - reg.last_cleanup_time >= SweepPeriod
    /\ reg' = [reg EXCEPT !.sweep_pc = "mark"]
    /\ UNCHANGED regFrame

\* _cleanup_offline_workers: workerOfflineStale(max_age_seconds=60); a
\* store error is logged and ends the sweep.
SweepMark ==
    /\ reg.sweep_pc = "mark"
    /\ \/ LET new == workerOfflineStale(reg.row, reg.now, OfflineAge) IN
          reg' = [reg EXCEPT !.row = new, !.sweep_pc = "delete",
                             !.offline_since = OfflineSince(reg.row, new, @, reg.now)]
       \/ reg' = [reg EXCEPT !.sweep_pc = "idle", !.last_cleanup_time = reg.now]
    /\ UNCHANGED regFrame

\* _cleanup_offline_workers: workerDeleteOffline(max_age_seconds=
\* worker_cleanup_timeout); the exception is logged; step 5 records the
\* time of the sweep.
SweepDelete ==
    /\ reg.sweep_pc = "delete"
    /\ reg' = [reg EXCEPT
                 !.row = IF /\ HasWorkerDeleteOffline
                            /\ reg.row.exists /\ reg.row.status = "offline"
                            /\ reg.now - reg.offline_since > worker_cleanup_timeout
                         THEN NoRow ELSE @,
                 !.sweep_pc = "idle", !.last_cleanup_time = reg.now]
    /\ UNCHANGED regFrame

NextRegistry ==
    \/ RegLapse
    \/ HeartbeatArrive
    \/ \E i \in 1..MaxHeartbeats : HeartbeatGet(i)
    \/ \E i \in 1..MaxHeartbeats : HeartbeatRegister(i)
    \/ \E i \in 1..MaxHeartbeats : HeartbeatUpdate(i)
    \/ SweepDue
    \/ SweepMark
    \/ SweepDelete

\* The control plane has been up for a while (last_cleanup_time is 0 and
\* time.time() is far past it); tbl_workers has no row for the worker_id.
InitRegistry ==
    /\ ScanAtRest
    /\ pb = NoPublisher
    /\ mgr = NoManager
    /\ sf = NoStoreFile
    /\ hm = NoHandle
    /\ cm = NoTask
    /\ wd = NoWatch
    /\ ing = NoIngest
    /\ reg = [NoRegistry EXCEPT !.now = SweepPeriod]

SpecRegistry == InitRegistry /\ [][NextRegistry]_vars

\* C25: when a heartbeat has been handled successfully the worker's row
\* exists and carries the heartbeat's status and current_scan and
\* last_seen = now, whether or not the row existed before.
C25_HeartbeatUpsertsRow ==
    [][\A i \in 1..MaxHeartbeats :
          (i <= Len(reg.hb) /\ reg.hb[i].pc = "update" /\ reg'.hb[i].pc = "ok") =>
              /\ reg'.row.exists
              /\ reg'.row.status = reg.hb[i].body.status
              /\ reg'.row.current_scan = reg.hb[i].body.current_scan
              /\ reg'.row.last_seen = reg.now]_vars

\* C25 witness: a busy heartbeat that found no row was handled and the row
\* is there, busy, with last_seen = now.
C25_Witness ==
    \E i \in 1..MaxHeartbeats :
        /\ i <= Len(reg.hb) /\ reg.hb[i].pc = "ok" /\ ~reg.hb[i].existing
        /\ reg.hb[i].body.status = "busy"
        /\ reg.row.exists /\ reg.row.status = "busy" /\ reg.row.last_seen = reg.now

\* C26: a sweep leaves offline every worker last seen more than 60 s ago
\* and leaves no worker that has been offline for longer than
\* cleanup_timeout.
C26_SweepMarksAndDeletes ==
    [][(reg.sweep_pc = "delete" /\ reg'.sweep_pc = "idle") =>
          /\ (reg'.row.exists /\ reg'.row.last_seen < reg.now - OfflineAge) =>
                 reg'.row.status = "offline"
          /\ ~(/\ reg'.row.exists /\ reg'.row.status = "offline"
               /\ reg.now - reg.offline_since > worker_cleanup_timeout)]_vars

\* The store mutex around the duplicate check (Spec)
\* =================================================================
\* A thread is between its duplicate SELECT and scanEventStore.
BetweenCheckAndInsert(t) == thr[t].pc = "event"

\* C27: the duplicate check and the insert that follows it are one atomic
\* step: while a consumer is between the two, no other write to
\* tbl_scan_results for the same hash happens.
C27_CheckAndInsertAtomic ==
    [][\A t \in Slots :
          (BetweenCheckAndInsert(t) /\ thr'[t] = thr[t]) =>
              rows'[thr[t].msg.hash] = rows[thr[t].msg.hash]]_vars

C29_ActiveScanHasConsumer ==
    [][/\ (mon_pc = "step1" /\ mon_pc' = "step2" /\ consumers' # NoThread) =>
              thr'[consumers'].pc \notin {"unborn", "dead"}
       /\ (mon_pc = "step2" /\ mon_pc' = "step3" /\ running_scans) =>
              (consumers' # NoThread /\ thr'[consumers'].pc # "unborn")
       /\ (mon_pc = "step4" /\ mon_pc' = "sleep" /\ running_scans) =>
              (consumers' # NoThread /\ thr'[consumers'].pc # "unborn")]_vars

\* C29 witness: an iteration that found the scan active has just started
\* a consumer in place of an earlier one, which had stored an event before
\* a fault ended it.
C29_Witness ==
    /\ mon_pc = "step3" /\ running_scans
    /\ consumers # NoThread /\ thr[consumers].pc = "starting"
    /\ nfault > 0 /\ \E h \in Hashes : rows[h] > 0
    /\ \A t \in Slots : t # consumers => thr[t].pc = "unborn"

\* C30: step 3 stops and untracks a consumer only when the scan's
\* control-plane status is neither RUNNING nor ABORT-REQUESTED.
C30_Step3StopsOnlyInactive ==
    [][(mon_pc = "step3" /\ mon_pc' = "step4"
          /\ consumers # NoThread /\ consumers' = NoThread) =>
              status \notin {"RUNNING", "ABORT-REQUESTED"}]_vars

\* _handle_message for one message, with delete_scan (SpecHandle)
\* =================================================================
\* Transient failures (a store error, a channel that closed before the
\* ack) during the handling of the message.
MaxHandleFaults == 1

\* Bodies a delivery can carry: bytes that are not UTF-8, text that is not
\* JSON, JSON that is not an object, an object for another scan_id, a log
\* entry, a FINISHED lifecycle, an event, an event with risk 101, and an
\* object with none of log, lifecycle and event.
Bodies == {"bad_utf8", "bad_json", "not_object", "other_scan", "log",
           "lifecycle", "event", "event_invalid", "empty"}

\* The except clauses of _handle_message: JSONDecodeError is nacked
\* without requeue, every other exception with requeue=True.
OnException(h, exc) ==
    IF exc = "JSONDecodeError"
    THEN [h EXCEPT !.pc = "settled", !.exc = exc, !.calls = Append(@, "nack_drop")]
    ELSE [h EXCEPT !.pc = "queued", !.exc = exc, !.calls = Append(@, "nack_requeue"),
                   !.requeued = TRUE]

\* The broker delivers the message (again, after a nack with requeue).
HandleDeliver ==
    /\ hm.pc = "queued"
    /\ hm' = [hm EXCEPT !.pc = "decode", !.calls = <<>>, !.exc = "none", !.requeued = FALSE,
                        !.redelivered = hm.requeued]
    /\ UNCHANGED hmFrame

\* body.decode raises UnicodeDecodeError, json.loads JSONDecodeError, and
\* message.get on a value that is not a dict AttributeError.
DecodeRaises(b) ==
    CASE b = "bad_utf8" -> "UnicodeDecodeError"
      [] b = "bad_json" -> "JSONDecodeError"
      [] b = "not_object" -> "AttributeError"
      [] OTHER -> "none"

\* Lines 557-563: decode, parse, read the four keys.
HandleDecode ==
    /\ hm.pc = "decode"
    /\ hm' = IF DecodeRaises(hm.body) = "none"
             THEN [hm EXCEPT !.pc = "route"]
             ELSE OnException(hm, DecodeRaises(hm.body))
    /\ UNCHANGED hmFrame

\* Lines 565-606: a message for another scan is nacked without requeue;
\* otherwise the log, lifecycle or event branch is taken, or none.
HandleRoute ==
    /\ hm.pc = "route"
    /\ hm' = CASE hm.body = "other_scan" ->
                    [hm EXCEPT !.pc = "settled", !.calls = Append(@, "nack_drop")]
               [] hm.body = "log" -> [hm EXCEPT !.pc = "log"]
               [] hm.body = "lifecycle" -> [hm EXCEPT !.pc = "lifecycle"]
               [] hm.body \in {"event", "event_invalid"} -> [hm EXCEPT !.pc = "event"]
               [] OTHER -> [hm EXCEPT !.pc = "ack"]
    /\ UNCHANGED hmFrame

\* The log branch: scanLogEvents, which can fail on the store.
HandleLog ==
    /\ hm.pc = "log"
    /\ \/ hm' = [hm EXCEPT !.pc = "ack"]
       \/ /\ hm.faults < MaxHandleFaults
          /\ hm' = OnException([hm EXCEPT !.faults = @ + 1], "IOError")
    /\ UNCHANGED hmFrame

\* The lifecycle branch for FINISHED: correlations, scanInstanceSet (an
\* UPDATE, which changes nothing when the row is gone), stop().
HandleFinished ==
    /\ hm.pc = "lifecycle"
    /\ \/ hm' = [hm EXCEPT !.pc = "ack",
                           !.scan_status = IF hm.scan_row THEN "FINISHED" ELSE @]
       \/ /\ hm.faults < MaxHandleFaults
          /\ hm' = OnException([hm EXCEPT !.faults = @ + 1], "IOError")
    /\ UNCHANGED hmFrame

\* The risk of the event in a body.
RiskOf(b) == IF b = "event_invalid" THEN 101 ELSE 0

\* The event branch up to the duplicate SELECT: build the event, set its
\* attributes, look for a row with its hash.
HandleBuild ==
    /\ hm.pc = "event"
    /\ \E o \in SetterOutcomes(RiskOf(hm.body)) :
          hm' = IF o = "raised" THEN OnException(hm, "ValueError")
                ELSE IF hm.results > 0 THEN [hm EXCEPT !.pc = "ack"]
                ELSE [hm EXCEPT !.pc = "store"]
    /\ UNCHANGED hmFrame

\* scanEventStore's INSERT names the scan_id only: the foreign key on
\* tbl_scan_instance is declared but not enforced (no PRAGMA foreign_keys).
InsertAllowed(h) == TRUE

\* scanEventStore: the range tests, then the INSERT.
HandleStore ==
    /\ hm.pc = "store"
    /\ \/ hm' = IF InRange(RiskOf(hm.body)) /\ InsertAllowed(hm)
                THEN [hm EXCEPT !.pc = "ack", !.results = @ + 1]
                ELSE OnException(hm, "ValueError")
       \/ /\ hm.faults < MaxHandleFaults
          /\ hm' = OnException([hm EXCEPT !.faults = @ + 1], "IOError")
    /\ UNCHANGED hmFrame

\* basic_ack inside the try block: on a channel that has closed it
\* raises, and the except clause then calls basic_nack.
HandleAck ==
    /\ hm.pc = "ack"
    /\ \/ hm' = [hm EXCEPT !.pc = "settled", !.calls = Append(@, "ack")]
       \/ /\ hm.faults < MaxHandleFaults
          /\ hm' = OnException([hm EXCEPT !.faults = @ + 1, !.calls = Append(@, "ack")],
                               "ChannelWrongStateError")
    /\ UNCHANGED hmFrame

\* Statuses for which delete_scan refuses.
DeleteRefused == {"RUNNING", "STARTING", "STARTED", "INITIALIZING"}

\* delete_scan: scanInstanceGet, the status test, scanInstanceDelete
\* (the scan's rows in tbl_scan_instance and tbl_scan_results go).
DeleteScan ==
    /\ hm.pc # "idle"
    /\ hm.scan_row
    /\ hm.scan_status \notin DeleteRefused
    /\ hm' = [hm EXCEPT !.scan_row = FALSE, !.results = 0, !.deleted = TRUE]
    /\ UNCHANGED hmFrame

NextHandle ==
    \/ HandleDeliver
    \/ HandleDecode
    \/ HandleRoute
    \/ HandleLog
    \/ HandleFinished
    \/ HandleBuild
    \/ HandleStore
    \/ HandleAck
    \/ DeleteScan

\* One message of any kind is in the result queue of a scan that is
\* RUNNING or ABORT-REQUESTED (the statuses a consumer is kept for); the
\* event's row may be there already (an earlier delivery stored it).
InitHandle ==
    /\ ScanAtRest
    /\ pb = NoPublisher
    /\ mgr = NoManager
    /\ sf = NoStoreFile
    /\ cm = NoTask
    /\ wd = NoWatch
    /\ ing = NoIngest
    /\ reg = NoRegistry
    /\ hm \in {[NoHandle EXCEPT !.pc = "queued", !.body = b, !.scan_status = s,
                                !.results = r] :
                  b \in Bodies, s \in {"RUNNING", "ABORT-REQUESTED"},
                  r \in {0, 1}}

SpecHandle == InitHandle /\ [][NextHandle]_vars

\* The consumer thread keeps running and the broker keeps delivering.
SpecHandleFair == SpecHandle /\ WF_vars(NextHandle)

\* The settlement the handling of a body is to end with.
ExpectedSettlement(h) ==
    IF h.body \in {"bad_utf8", "bad_json", "other_scan"} THEN "nack_drop"
    ELSE IF h.exc # "none" THEN "nack_requeue"
    ELSE "ack"

\* A delivery has been handled and _handle_message has returned.
Handled == hm.pc \in {"queued", "settled"} /\ (hm.calls # <<>> \/ hm.pc = "settled")

\* C31: a handled delivery has had exactly one settlement call: nack without
\* requeue for a body that is not valid JSON or is for another scan, nack
\* with requeue where another exception was raised, ack otherwise.
C31_OneSettlementPerDelivery ==
    Handled => hm.calls = <<ExpectedSettlement(hm)>>

\* C35: a message delivered to the consumer is eventually settled for good
\* (acked, or nacked without requeue).
C35_EventuallySettled == (hm.pc = "decode") ~> (hm.pc = "settled")

\* C40: tbl_scan_results holds no row for a scan that has no row in
\* tbl_scan_instance.
C40_NoResultsWithoutInstance == ~hm.scan_row => hm.results = 0

\* The worker's execution of the scan has ended: run_scan_task has
\* returned or raised and the delivery is settled.
ExecutionEnded == wk.pc = "done" /\ ~wk.ack_raised

\* C32: the watchdog writes FINISHED only after the worker's execution of
\* the scan has ended, never while the task waits in the task queue or is
\* executing.
C32_WatchdogAfterExecution ==
    [][(mon_pc = "mark" /\ status' = "FINISHED" /\ status # "FINISHED")
          => ExecutionEnded]_vars

\* C33: stop_scan's write replaces only RUNNING or STARTING: a status that
\* is terminal at the moment of the write is never changed to
\* ABORT-REQUESTED.
C33_StopWritesOverActiveOnly ==
    [][(stop_pc = "write" /\ stop_pc' # "write" /\ status' = "ABORT-REQUESTED")
          => status \in {"RUNNING", "STARTING"}]_vars

\* C34: the abort bridge never replaces a terminal task-local status by
\* ABORT-REQUESTED.
C34_BridgeKeepsTerminalLocal ==
    [][wk.local \in Terminal => wk'.local # "ABORT-REQUESTED"]_vars

\* The task-local store file spiderfoot_{scan_id}.db (SpecStoreFile)
\* =================================================================
\* Deliveries of the task for the scan_id (redelivery follows a worker
\* crash).
MaxStoreDeliveries == 2
\* Times os.unlink raises OSError.
MaxUnlinkFaults == 1

\* The broker delivers the task to a worker.
StoreFileDeliver ==
    /\ sf.pc = "queued"
    /\ sf.deliveries < MaxStoreDeliveries
    /\ sf' = [sf EXCEPT !.pc = "setup", !.deliveries = @ + 1]
    /\ UNCHANGED sfFrame

\* os.unlink on the store file: the file is gone, or OSError was raised
\* and the file is as before.
Unlink(f) == IF f.file = "absent" THEN {f}
             ELSE {[f EXCEPT !.file = "absent"]} \cup
                  (IF f.unlink_faults < MaxUnlinkFaults
                   THEN {[f EXCEPT !.unlink_faults = @ + 1]} ELSE {})

\* Lines 281-288: remove a file left at scan_db_path by an earlier
\* delivery; OSError is logged.
RemoveLeftover(f) == Unlink(f)

\* run_scan_task up to the try block: the leftover is removed, the
\* configuration is loaded (any of it can raise), the abort bridge is
\* started.
StoreFileSetup ==
    /\ sf.pc = "setup"
    /\ \E g \in RemoveLeftover(sf) :
          \/ sf' = [g EXCEPT !.pc = "start", !.bridge = "waiting"]
          \/ sf' = [g EXCEPT !.pc = "returned"]
    /\ UNCHANGED sfFrame

\* startSpiderFootScanner opens the store at scan_db_path and creates its
\* scan row.
StoreFileEngineStart ==
    /\ sf.pc = "start"
    /\ sf' = [sf EXCEPT !.pc = "engine", !.at_start = sf.file, !.file = "live"]
    /\ UNCHANGED sfFrame

\* stop_scan writes ABORT-REQUESTED (or delete_scan removes the row) in
\* the control-plane store.
StoreFileAbortRequested ==
    /\ sf.pc \in {"setup", "start", "engine"}
    /\ ~sf.abort
    /\ sf' = [sf EXCEPT !.abort = TRUE]
    /\ UNCHANGED sfFrame

\* The bridge's stop_event.wait(3) returns: stop_event is set once the
\* finally block has begun; otherwise the bridge polls the control-plane
\* store.
StoreFileBridgePoll ==
    /\ sf.bridge = "waiting"
    /\ sf' = IF sf.pc \in {"start", "engine"}
             THEN [sf EXCEPT !.bridge = IF should_abort(IF sf.abort THEN "ABORT-REQUESTED"
                                                        ELSE "RUNNING")
                                        THEN "polled" ELSE "waiting"]
             ELSE [sf EXCEPT !.bridge = "exited"]
    /\ sf' # sf
    /\ UNCHANGED sfFrame

\* The bridge's sqlite3.connect(scan_db_path) and UPDATE: connect creates
\* the file when there is none (the UPDATE then fails on the missing
\* table and is logged); the bridge exits once a row was updated.
StoreFileBridgeConnect ==
    /\ sf.bridge = "polled"
    /\ sf' = [sf EXCEPT !.file = IF @ = "absent" THEN "empty" ELSE @,
                        !.bridge = IF sf.file = "live" /\ sf.pc = "engine"
                                   THEN "exited" ELSE "waiting"]
    /\ UNCHANGED sfFrame

\* The engine returns or raises.
StoreFileEngineEnd ==
    /\ sf.pc = "engine"
    /\ sf' = [sf EXCEPT !.pc = "finally"]
    /\ UNCHANGED sfFrame

\* The worker process dies while the engine runs: its threads die with
\* it, the file stays, the broker requeues the task.
StoreFileCrash ==
    /\ sf.pc = "engine"
    /\ sf.deliveries < MaxStoreDeliveries
    /\ sf' = [sf EXCEPT !.pc = "queued", !.bridge = "off", !.file = "stale"]
    /\ UNCHANGED sfFrame

\* The finally block: abort_stop.set() (the bridge thread is not joined),
\* the final status is read, the file is unlinked with OSError
\* suppressed.
StoreFileFinally ==
    /\ sf.pc = "finally"
    /\ \E g \in Unlink(sf) : sf' = [g EXCEPT !.pc = "returned"]
    /\ UNCHANGED sfFrame

NextStoreFile ==
    \/ StoreFileDeliver
    \/ StoreFileSetup
    \/ StoreFileEngineStart
    \/ StoreFileAbortRequested
    \/ StoreFileBridgePoll
    \/ StoreFileBridgeConnect
    \/ StoreFileEngineEnd
    \/ StoreFileCrash
    \/ StoreFileFinally

\* The task is in the task queue; nothing is at scan_db_path.
InitStoreFile ==
    /\ ScanAtRest
    /\ pb = NoPublisher
    /\ mgr = NoManager
    /\ cm = NoTask
    /\ wd = NoWatch
    /\ ing = NoIngest
    /\ reg = NoRegistry
    /\ hm = NoHandle
    /\ sf = [NoStoreFile EXCEPT !.pc = "queued"]

SpecStoreFile == InitStoreFile /\ [][NextStoreFile]_vars

\* C36: the engine of a delivery starts with no file left at scan_db_path
\* by an earlier delivery, and once run_scan_task has returned or raised
\* there is no file at scan_db_path.
C36_StoreFileRemoved ==
    /\ sf.pc \in {"engine", "finally"} => sf.at_start # "stale"
    /\ sf.pc = "returned" => sf.file = "absent"

\* ResultConsumerManager.start and its monitor thread (SpecManager)
\* =================================================================
\* Polls of the store by the monitor thread.
MaxPolls == 3
\* Times the broker becomes reachable or unreachable.
MaxBrokerFlips == 2

\* The broker becomes unreachable, or reachable again.
BrokerFlip ==
    /\ mgr.flips < MaxBrokerFlips
    /\ mgr' = [mgr EXCEPT !.broker_up = ~@, !.flips = @ + 1]
    /\ UNCHANGED mgrFrame

\* _connect: TRUE when the connection, the channel and the exchange
\* declaration succeeded; any exception is logged and gives FALSE.
ManagerConnect ==
    /\ mgr.pc = "created"
    /\ mgr' = [mgr EXCEPT !.pc = "connecting", !.connected = mgr.broker_up]
    /\ UNCHANGED mgrFrame

\* start(): when _connect returned False it logs and returns; only
\* otherwise is the monitor thread created and started.
StartsMonitor(connected) == connected

\* start() after _connect.
ManagerStart ==
    /\ mgr.pc = "connecting"
    /\ mgr' = [mgr EXCEPT !.pc = "returned",
                          !.monitor = IF StartsMonitor(mgr.connected)
                                      THEN "polling" ELSE "none"]
    /\ UNCHANGED mgrFrame

\* launch_scan creates a scan and sets it RUNNING.
ManagerScanLaunched ==
    /\ mgr.scan = "none"
    /\ mgr' = [mgr EXCEPT !.scan = "RUNNING"]
    /\ UNCHANGED mgrFrame

\* One iteration of _monitor_scans: read the RUNNING scans and start a
\* ConsumerThread for one that has none.
ManagerMonitorPoll ==
    /\ mgr.monitor = "polling"
    /\ mgr.polls < MaxPolls
    /\ mgr' = [mgr EXCEPT !.monitor = "waiting", !.polls = @ + 1,
                          !.consumer = @ \/ mgr.scan = "RUNNING"]
    /\ UNCHANGED mgrFrame

\* shutdown_event.wait(timeout=10) times out.
ManagerMonitorWake ==
    /\ mgr.monitor = "waiting"
    /\ mgr' = [mgr EXCEPT !.monitor = "polling"]
    /\ UNCHANGED mgrFrame

NextManager ==
    \/ BrokerFlip
    \/ ManagerConnect
    \/ ManagerStart
    \/ ManagerScanLaunched
    \/ ManagerMonitorPoll
    \/ ManagerMonitorWake

\* The manager has been constructed; the broker is reachable or not.
InitManager ==
    /\ ScanAtRest
    /\ pb = NoPublisher
    /\ cm = NoTask
    /\ wd = NoWatch
    /\ ing = NoIngest
    /\ reg = NoRegistry
    /\ hm = NoHandle
    /\ sf = NoStoreFile
    /\ mgr \in {[NoManager EXCEPT !.broker_up = up] : up \in BOOLEAN}

SpecManager == InitManager /\ [][NextManager]_vars

\* C37: when start() could not connect to the broker, the monitor thread
\* has been started all the same.
C37_MonitorStartedWithoutBroker ==
    (mgr.pc = "returned" /\ ~mgr.connected) => mgr.monitor # "none"

\* C38: when creating the scan row or setting it RUNNING failed,
\* launch_scan has returned ERROR and has neither declared a result
\* queue, nor published a task, nor started a local scanner.
C38_RowFailureReturnsError ==
    ls.row_failed =>
        /\ ls.pc = "returned" /\ ls.ret = "ERROR"
        /\ ls.predeclared = "none" /\ ~queueExists
        /\ ~ls.task_published
        /\ ls.scanner = "none"

\* C38 witness: the row was created, setting it RUNNING raised, and
\* launch_scan returned ERROR.
C38_Witness ==
    /\ ls.row_failed /\ ls.ret = "ERROR" /\ ls.pc = "returned"
    /\ status = "CREATED" /\ ls.row_creates = 1 /\ ~ls.create_failed

\* Publish failures of the result sink and the log forwarder (SpecPublish)
\* =================================================================
\* Events the engine hands to the sink.
MaxSinkEvents == 2
\* Log records the listener hands to the forwarder.
MaxLogRecords == 3

\* The broker becomes unreachable (open connections go stale: the objects
\* remain, every call on them raises) or reachable again.
PublishBrokerFlip ==
    /\ pb.engine = "running"
    /\ pb.flips < MaxBrokerFlips
    /\ pb' = [pb EXCEPT !.broker_up = ~@, !.flips = @ + 1,
                        !.sink = IF @ = "open" THEN "stale" ELSE @,
                        !.fw = IF @ = "open" THEN "stale" ELSE @]
    /\ UNCHANGED pbFrame

\* The sink's setup(): _connect, whose exception is logged (the channel
\* stays None).
SinkSetup ==
    /\ pb.engine = "setup"
    /\ pb' = [pb EXCEPT !.engine = "running",
                        !.sink = IF pb.broker_up THEN "open" ELSE "none",
                        !.sink_connects = @ + 1]
    /\ UNCHANGED pbFrame

\* A sink whose except clause lets the publish failure out to the engine.
OnSinkPublishFailure_Raise(p) ==
    [p EXCEPT !.engine = "raised", !.sink_failures = @ + 1, !.last = "sink_failed"]

\* handleEvent's except clause: log the failure, then _connect() again
\* (its own exception is logged; the old objects stay on failure).
OnSinkPublishFailure(p) ==
    [p EXCEPT !.sink = IF p.broker_up THEN "open" ELSE "stale",
              !.sink_connects = @ + 1,
              !.sink_failures = @ + 1,
              !.last = "sink_failed"]

\* handleEvent: without a channel the event is skipped; otherwise the
\* publish is tried (building its properties needs the name pika).
SinkHandleEvent ==
    /\ pb.engine = "running"
    /\ pb.events < MaxSinkEvents
    /\ LET p == [pb EXCEPT !.events = @ + 1] IN
       pb' = IF pb.sink = "none" THEN [p EXCEPT !.last = "sink_skipped"]
             ELSE IF PikaBound /\ pb.sink = "open" THEN [p EXCEPT !.last = "sink_ok"]
             ELSE OnSinkPublishFailure(p)
    /\ UNCHANGED pbFrame

\* finished(): the FINISHED publish, whose failure is logged; the
\* connection is closed in the finally clause.
SinkFinished ==
    /\ pb.engine = "running"
    /\ pb' = [pb EXCEPT !.engine = "finished",
                        !.sink = "none",
                        !.last = IF pb.sink = "none" THEN "finished_skipped"
                                 ELSE IF PikaBound /\ pb.sink = "open" THEN "finished_ok"
                                 ELSE "finished_failed"]
    /\ UNCHANGED pbFrame

\* _ensure_connected: an existing connection that is not closed is kept;
\* otherwise a connection is attempted, and on failure both fields are
\* None.
EnsureConnected(p) ==
    IF p.fw # "none" THEN p
    ELSE [p EXCEPT !.fw = IF p.broker_up THEN "open" ELSE "none",
                   !.fw_connects = @ + 1]

\* emit's except clause: the connection and the channel are set to None.
OnEmitFailure(p) == [p EXCEPT !.fw = "none", !.fw_failures = @ + 1, !.last = "fw_failed"]

\* emit for a scan-scoped record: return when not connected, else publish.
LogEmit ==
    /\ pb.engine = "running"
    /\ pb.logs < MaxLogRecords
    /\ LET p == EnsureConnected([pb EXCEPT !.logs = @ + 1]) IN
       pb' = IF p.fw = "none" THEN [p EXCEPT !.last = "fw_skipped"]
             ELSE IF p.fw = "open" THEN [p EXCEPT !.last = "fw_ok"]
             ELSE OnEmitFailure(p)
    /\ UNCHANGED pbFrame

NextPublish ==
    \/ PublishBrokerFlip
    \/ SinkSetup
    \/ SinkHandleEvent
    \/ SinkFinished
    \/ LogEmit

\* The engine is about to set up its modules; the broker is reachable or
\* not.
InitPublish ==
    /\ ScanAtRest
    /\ cm = NoTask
    /\ wd = NoWatch
    /\ ing = NoIngest
    /\ reg = NoRegistry
    /\ hm = NoHandle
    /\ sf = NoStoreFile
    /\ mgr = NoManager
    /\ pb \in {[NoPublisher EXCEPT !.engine = "setup", !.broker_up = up] : up \in BOOLEAN}

SpecPublish == InitPublish /\ [][NextPublish]_vars

\* C39: a publish failure of the sink or of the log forwarder never raises
\* into the engine, which keeps running; the sink attempts to reconnect
\* in the handleEvent call that failed; the forwarder drops its channel
\* and attempts to connect in its next emit.
C39_PublishFailureContained ==
    /\ [](pb.engine # "raised")
    /\ [][/\ (pb'.events = pb.events + 1 /\ pb'.last = "sink_failed")
             => (pb'.sink_connects = pb.sink_connects + 1 /\ pb'.engine = "running")
          /\ (pb'.logs = pb.logs + 1 /\ pb'.last = "fw_failed")
             => (pb'.fw = "none" /\ pb'.engine = "running")
          /\ (pb'.logs = pb.logs + 1 /\ pb.fw = "none")
             => pb'.fw_connects = pb.fw_connects + 1]_vars

\* C39 witness: the forwarder's publish failed, and in its next emit it
\* connected again and published; a handleEvent publish failed as well and
\* the sink reconnected; the engine is running.
C39_Witness ==
    /\ pb.engine = "running"
    /\ pb.fw_failures = 1 /\ pb.fw_connects = 2 /\ pb.last = "fw_ok"
    /\ pb.sink_failures > 0 /\ pb.sink_connects > 1 /\ pb.sink = "open"

====
